---- MODULE Spec2Model ----
(***************************************************************************)
(* A model of the otezip ZIP container engine (src/src/lib/otezip.c) and   *)
(* of its DEFLATE codec (src/src/lib/deflate-enc.inc.c, deflate-dec.inc.c).*)
(*                                                                         *)
(* Representation notes.                                                   *)
(*  - A byte buffer is a sequence of naturals 0..255; C offsets are        *)
(*    zero-based, so byte p of buffer b is b[p + 1].                       *)
(*  - TLC integers are 32-bit signed.  A uint32_t whose value is 2^31 or   *)
(*    more is carried as its two's-complement image (v - 2^32); wr32/rd32  *)
(*    convert exactly, and unsigned comparisons go through ULt.            *)
(*  - A CRC-32 is carried as its four little-endian bytes.                 *)
(***************************************************************************)
EXTENDS Integers, Sequences, FiniteSets, TLC

(* ------------------------------------------------------------------ *)
(* Byte primitives                                                      *)
(* ------------------------------------------------------------------ *)

Min(a, b) == IF a < b THEN a ELSE b

\* F applied to the value of e: names a value that is used more than once.
\* The value is taken before F is applied to it.
Bind(e, F(_)) == CHOOSE r \in {F(v) : v \in {e}} : TRUE

RECURSIVE Xor(_, _)
Xor(a, b) ==
    IF a = 0 THEN b
    ELSE IF b = 0 THEN a
    ELSE 2 * Xor(a \div 2, b \div 2) + ((a + b) % 2)

\* n copies of v
Rep(v, n) == [i \in 1..n |-> v]

\* bytes [from, from + n) of buffer b (zero-based offset)
Bytes(b, from, n) == SubSeq(b, from + 1, from + n)

\* unsigned "less than" on uint32_t images
ULt(a, b) ==
    IF (a < 0) = (b < 0) THEN a < b ELSE b < 0

otezip_rd16(b, p) == b[p + 1] + 256 * b[p + 2]

otezip_rd32(b, p) ==
    b[p + 1] + 256 * b[p + 2] + 65536 * b[p + 3]
    + 16777216 * (IF b[p + 4] >= 128 THEN b[p + 4] - 256 ELSE b[p + 4])

\* the conversion of the argument to uint16_t is part of the call
otezip_wr16(v) == << v % 256, (v \div 256) % 256 >>

otezip_wr32(v) ==
    << v % 256, (v \div 256) % 256, (v \div 65536) % 256, (v \div 16777216) % 256 >>

(* ------------------------------------------------------------------ *)
(* CRC-32                                                               *)
(* ------------------------------------------------------------------ *)

\* each entry as << high 16 bits, low 16 bits >>
crc32_table == <<
    <<\h0000, \h0000>>, <<\h7707, \h3096>>, <<\hEE0E, \h612C>>, <<\h9909, \h51BA>>,
    <<\h076D, \hC419>>, <<\h706A, \hF48F>>, <<\hE963, \hA535>>, <<\h9E64, \h95A3>>,
    <<\h0EDB, \h8832>>, <<\h79DC, \hB8A4>>, <<\hE0D5, \hE91E>>, <<\h97D2, \hD988>>,
    <<\h09B6, \h4C2B>>, <<\h7EB1, \h7CBD>>, <<\hE7B8, \h2D07>>, <<\h90BF, \h1D91>>,
    <<\h1DB7, \h1064>>, <<\h6AB0, \h20F2>>, <<\hF3B9, \h7148>>, <<\h84BE, \h41DE>>,
    <<\h1ADA, \hD47D>>, <<\h6DDD, \hE4EB>>, <<\hF4D4, \hB551>>, <<\h83D3, \h85C7>>,
    <<\h136C, \h9856>>, <<\h646B, \hA8C0>>, <<\hFD62, \hF97A>>, <<\h8A65, \hC9EC>>,
    <<\h1401, \h5C4F>>, <<\h6306, \h6CD9>>, <<\hFA0F, \h3D63>>, <<\h8D08, \h0DF5>>,
    <<\h3B6E, \h20C8>>, <<\h4C69, \h105E>>, <<\hD560, \h41E4>>, <<\hA267, \h7172>>,
    <<\h3C03, \hE4D1>>, <<\h4B04, \hD447>>, <<\hD20D, \h85FD>>, <<\hA50A, \hB56B>>,
    <<\h35B5, \hA8FA>>, <<\h42B2, \h986C>>, <<\hDBBB, \hC9D6>>, <<\hACBC, \hF940>>,
    <<\h32D8, \h6CE3>>, <<\h45DF, \h5C75>>, <<\hDCD6, \h0DCF>>, <<\hABD1, \h3D59>>,
    <<\h26D9, \h30AC>>, <<\h51DE, \h003A>>, <<\hC8D7, \h5180>>, <<\hBFD0, \h6116>>,
    <<\h21B4, \hF4B5>>, <<\h56B3, \hC423>>, <<\hCFBA, \h9599>>, <<\hB8BD, \hA50F>>,
    <<\h2802, \hB89E>>, <<\h5F05, \h8808>>, <<\hC60C, \hD9B2>>, <<\hB10B, \hE924>>,
    <<\h2F6F, \h7C87>>, <<\h5868, \h4C11>>, <<\hC161, \h1DAB>>, <<\hB666, \h2D3D>>,
    <<\h76DC, \h4190>>, <<\h01DB, \h7106>>, <<\h98D2, \h20BC>>, <<\hEFD5, \h102A>>,
    <<\h71B1, \h8589>>, <<\h06B6, \hB51F>>, <<\h9FBF, \hE4A5>>, <<\hE8B8, \hD433>>,
    <<\h7807, \hC9A2>>, <<\h0F00, \hF934>>, <<\h9609, \hA88E>>, <<\hE10E, \h9818>>,
    <<\h7F6A, \h0DBB>>, <<\h086D, \h3D2D>>, <<\h9164, \h6C97>>, <<\hE663, \h5C01>>,
    <<\h6B6B, \h51F4>>, <<\h1C6C, \h6162>>, <<\h8565, \h30D8>>, <<\hF262, \h004E>>,
    <<\h6C06, \h95ED>>, <<\h1B01, \hA57B>>, <<\h8208, \hF4C1>>, <<\hF50F, \hC457>>,
    <<\h65B0, \hD9C6>>, <<\h12B7, \hE950>>, <<\h8BBE, \hB8EA>>, <<\hFCB9, \h887C>>,
    <<\h62DD, \h1DDF>>, <<\h15DA, \h2D49>>, <<\h8CD3, \h7CF3>>, <<\hFBD4, \h4C65>>,
    <<\h4DB2, \h6158>>, <<\h3AB5, \h51CE>>, <<\hA3BC, \h0074>>, <<\hD4BB, \h30E2>>,
    <<\h4ADF, \hA541>>, <<\h3DD8, \h95D7>>, <<\hA4D1, \hC46D>>, <<\hD3D6, \hF4FB>>,
    <<\h4369, \hE96A>>, <<\h346E, \hD9FC>>, <<\hAD67, \h8846>>, <<\hDA60, \hB8D0>>,
    <<\h4404, \h2D73>>, <<\h3303, \h1DE5>>, <<\hAA0A, \h4C5F>>, <<\hDD0D, \h7CC9>>,
    <<\h5005, \h713C>>, <<\h2702, \h41AA>>, <<\hBE0B, \h1010>>, <<\hC90C, \h2086>>,
    <<\h5768, \hB525>>, <<\h206F, \h85B3>>, <<\hB966, \hD409>>, <<\hCE61, \hE49F>>,
    <<\h5EDE, \hF90E>>, <<\h29D9, \hC998>>, <<\hB0D0, \h9822>>, <<\hC7D7, \hA8B4>>,
    <<\h59B3, \h3D17>>, <<\h2EB4, \h0D81>>, <<\hB7BD, \h5C3B>>, <<\hC0BA, \h6CAD>>,
    <<\hEDB8, \h8320>>, <<\h9ABF, \hB3B6>>, <<\h03B6, \hE20C>>, <<\h74B1, \hD29A>>,
    <<\hEAD5, \h4739>>, <<\h9DD2, \h77AF>>, <<\h04DB, \h2615>>, <<\h73DC, \h1683>>,
    <<\hE363, \h0B12>>, <<\h9464, \h3B84>>, <<\h0D6D, \h6A3E>>, <<\h7A6A, \h5AA8>>,
    <<\hE40E, \hCF0B>>, <<\h9309, \hFF9D>>, <<\h0A00, \hAE27>>, <<\h7D07, \h9EB1>>,
    <<\hF00F, \h9344>>, <<\h8708, \hA3D2>>, <<\h1E01, \hF268>>, <<\h6906, \hC2FE>>,
    <<\hF762, \h575D>>, <<\h8065, \h67CB>>, <<\h196C, \h3671>>, <<\h6E6B, \h06E7>>,
    <<\hFED4, \h1B76>>, <<\h89D3, \h2BE0>>, <<\h10DA, \h7A5A>>, <<\h67DD, \h4ACC>>,
    <<\hF9B9, \hDF6F>>, <<\h8EBE, \hEFF9>>, <<\h17B7, \hBE43>>, <<\h60B0, \h8ED5>>,
    <<\hD6D6, \hA3E8>>, <<\hA1D1, \h937E>>, <<\h38D8, \hC2C4>>, <<\h4FDF, \hF252>>,
    <<\hD1BB, \h67F1>>, <<\hA6BC, \h5767>>, <<\h3FB5, \h06DD>>, <<\h48B2, \h364B>>,
    <<\hD80D, \h2BDA>>, <<\hAF0A, \h1B4C>>, <<\h3603, \h4AF6>>, <<\h4104, \h7A60>>,
    <<\hDF60, \hEFC3>>, <<\hA867, \hDF55>>, <<\h316E, \h8EEF>>, <<\h4669, \hBE79>>,
    <<\hCB61, \hB38C>>, <<\hBC66, \h831A>>, <<\h256F, \hD2A0>>, <<\h5268, \hE236>>,
    <<\hCC0C, \h7795>>, <<\hBB0B, \h4703>>, <<\h2202, \h16B9>>, <<\h5505, \h262F>>,
    <<\hC5BA, \h3BBE>>, <<\hB2BD, \h0B28>>, <<\h2BB4, \h5A92>>, <<\h5CB3, \h6A04>>,
    <<\hC2D7, \hFFA7>>, <<\hB5D0, \hCF31>>, <<\h2CD9, \h9E8B>>, <<\h5BDE, \hAE1D>>,
    <<\h9B64, \hC2B0>>, <<\hEC63, \hF226>>, <<\h756A, \hA39C>>, <<\h026D, \h930A>>,
    <<\h9C09, \h06A9>>, <<\hEB0E, \h363F>>, <<\h7207, \h6785>>, <<\h0500, \h5713>>,
    <<\h95BF, \h4A82>>, <<\hE2B8, \h7A14>>, <<\h7BB1, \h2BAE>>, <<\h0CB6, \h1B38>>,
    <<\h92D2, \h8E9B>>, <<\hE5D5, \hBE0D>>, <<\h7CDC, \hEFB7>>, <<\h0BDB, \hDF21>>,
    <<\h86D3, \hD2D4>>, <<\hF1D4, \hE242>>, <<\h68DD, \hB3F8>>, <<\h1FDA, \h836E>>,
    <<\h81BE, \h16CD>>, <<\hF6B9, \h265B>>, <<\h6FB0, \h77E1>>, <<\h18B7, \h4777>>,
    <<\h8808, \h5AE6>>, <<\hFF0F, \h6A70>>, <<\h6606, \h3BCA>>, <<\h1101, \h0B5C>>,
    <<\h8F65, \h9EFF>>, <<\hF862, \hAE69>>, <<\h616B, \hFFD3>>, <<\h166C, \hCF45>>,
    <<\hA00A, \hE278>>, <<\hD70D, \hD2EE>>, <<\h4E04, \h8354>>, <<\h3903, \hB3C2>>,
    <<\hA767, \h2661>>, <<\hD060, \h16F7>>, <<\h4969, \h474D>>, <<\h3E6E, \h77DB>>,
    <<\hAED1, \h6A4A>>, <<\hD9D6, \h5ADC>>, <<\h40DF, \h0B66>>, <<\h37D8, \h3BF0>>,
    <<\hA9BC, \hAE53>>, <<\hDEBB, \h9EC5>>, <<\h47B2, \hCF7F>>, <<\h30B5, \hFFE9>>,
    <<\hBDBD, \hF21C>>, <<\hCABA, \hC28A>>, <<\h53B3, \h9330>>, <<\h24B4, \hA3A6>>,
    <<\hBAD0, \h3605>>, <<\hCDD7, \h0693>>, <<\h54DE, \h5729>>, <<\h23D9, \h67BF>>,
    <<\hB366, \h7A2E>>, <<\hC461, \h4AB8>>, <<\h5D68, \h1B02>>, <<\h2A6F, \h2B94>>,
    <<\hB40B, \hBE37>>, <<\hC30C, \h8EA1>>, <<\h5A05, \hDF1B>>, <<\h2D02, \hEF8D>>
>>

\* table entry i as four little-endian bytes
CrcTableBytes(i) ==
    Bind(crc32_table[i + 1], LAMBDA e :
         << e[2] % 256, e[2] \div 256, e[1] % 256, e[1] \div 256 >>)

\* the loop over bytes lo..hi of buf, in order; a long range is run as its
\* first half followed by its second half
RECURSIVE CrcUpdate(_, _, _, _)
CrcUpdate(crc, buf, lo, hi) ==
    IF lo > hi THEN crc
    ELSE IF lo = hi
    THEN Bind(CrcTableBytes(Xor(crc[1], buf[lo])), LAMBDA t :
              << Xor(t[1], crc[2]), Xor(t[2], crc[3]), Xor(t[3], crc[4]), t[4] >>)
    ELSE Bind(CrcUpdate(crc, buf, lo, (lo + hi) \div 2), LAMBDA c :
              CrcUpdate(c, buf, (lo + hi) \div 2 + 1, hi))

CrcNot(c) == << 255 - c[1], 255 - c[2], 255 - c[3], 255 - c[4] >>

CrcZero == << 0, 0, 0, 0 >>

otezip_crc32(crc, buf) == CrcNot(CrcUpdate(CrcNot(crc), buf, 1, Len(buf)))

(* ------------------------------------------------------------------ *)
(* zlib-compatible constants (deflate.inc.c)                            *)
(* ------------------------------------------------------------------ *)

Z_OK == 0
Z_STREAM_END == 1
Z_STREAM_ERROR == -2
Z_DATA_ERROR == -3
Z_BUF_ERROR == -5
Z_NO_FLUSH == 0
Z_FINISH == 4
Z_NO_COMPRESSION == 0
Z_DEFAULT_COMPRESSION == -1
MAX_WBITS == 15

BLOCK_UNCOMPRESSED == 0
BLOCK_FIXED == 1
BLOCK_DYNAMIC == 2
BLOCK_INVALID == 3

compressBound(sourceLen) == sourceLen + ((sourceLen \div 8) + 64) + 11

(* ------------------------------------------------------------------ *)
(* Huffman tables                                                       *)
(* ------------------------------------------------------------------ *)

\* a zeroed huffman_table (calloc)
EmptyTable == [codes |-> Rep(0, 288), lengths |-> Rep(0, 288), count |-> 0]

\* bl_count[l] over lengths[0 .. num_codes-1]; only lengths > 0 are counted
BlCount(lengths, num_codes, l) ==
    IF l = 0 THEN 0 ELSE Cardinality({i \in 1..num_codes : lengths[i] = l})

\* next_code[bits] before any symbol is assigned (uint16_t arithmetic)
RECURSIVE NextCode(_, _, _)
NextCode(lengths, num_codes, bits) ==
    IF bits = 0 THEN 0
    ELSE ((NextCode(lengths, num_codes, bits - 1)
           + BlCount(lengths, num_codes, bits - 1)) * 2) % 65536

\* build_huffman_tree: the table after the call, and its return code.
\* lengths holds at least num_codes entries.
build_huffman_tree(table, lengths, num_codes) ==
    IF \E i \in 1..num_codes : lengths[i] > 15
    THEN [table |-> table, ret |-> Z_DATA_ERROR]
    ELSE LET nc == [b \in 1..15 |-> NextCode(lengths, num_codes, b)]
         IN  [table |->
                [codes |-> [i \in 1..288 |->
                    IF i <= num_codes /\ lengths[i] > 0
                    THEN (nc[lengths[i]]
                          + Cardinality({j \in 1..(i - 1) : lengths[j] = lengths[i]})) % 65536
                    ELSE table.codes[i]],
                 lengths |-> [i \in 1..288 |->
                    IF i <= num_codes THEN lengths[i] ELSE table.lengths[i]],
                 count |-> num_codes],
              ret |-> Z_OK]

\* the linear search of the (length, code) pairs: first matching symbol or -1
HuffFind(table, n, len, code) ==
    LET S == {i \in 0..(n - 1) : table.lengths[i + 1] = len /\ table.codes[i + 1] = code}
    IN  IF S = {} THEN -1 ELSE CHOOSE i \in S : \A j \in S : i <= j

FixedLitLengths ==
    [i \in 1..288 |-> IF i - 1 <= 143 THEN 8
                      ELSE IF i - 1 <= 255 THEN 9
                      ELSE IF i - 1 <= 279 THEN 7 ELSE 8]

FixedDistLengths == Rep(5, 32)

FixedLiterals == build_huffman_tree(EmptyTable, FixedLitLengths, 288).table

FixedDistances == build_huffman_tree(EmptyTable, FixedDistLengths, 32).table

\* init_fixed_huffman: both tables of the state are rebuilt.  All 288 cells of
\* the literal table are assigned; the distance table keeps what its cells
\* from 32 on held before.
init_fixed_huffman(d) ==
    [d EXCEPT !.literals = FixedLiterals,
              !.distances = [codes |-> [i \in 1..288 |->
                                          IF i <= 32 THEN FixedDistances.codes[i]
                                          ELSE d.distances.codes[i]],
                             lengths |-> [i \in 1..288 |->
                                            IF i <= 32 THEN FixedDistances.lengths[i]
                                            ELSE d.distances.lengths[i]],
                             count |-> 32]]

length_base == << 3, 4, 5, 6, 7, 8, 9, 10, 11, 13, 15, 17, 19, 23, 27, 31, 35, 43, 51,
                  59, 67, 83, 99, 115, 131, 163, 195, 227, 258 >>

length_extra == << 0, 0, 0, 0, 0, 0, 0, 0, 1, 1, 1, 1, 2, 2, 2, 2, 3, 3, 3, 3, 4, 4, 4,
                   4, 5, 5, 5, 5, 0 >>

dist_base == << 1, 2, 3, 4, 5, 7, 9, 13, 17, 25, 33, 49, 65, 97, 129, 193, 257, 385, 513,
                769, 1025, 1537, 2049, 3073, 4097, 6145, 8193, 12289, 16385, 24577 >>

dist_extra == << 0, 0, 0, 0, 1, 1, 2, 2, 3, 3, 4, 4, 5, 5, 6, 6, 7, 7, 8, 8, 9, 9, 10, 10,
                 11, 11, 12, 12, 13, 13 >>

(* ------------------------------------------------------------------ *)
(* Sliding windows                                                      *)
(*                                                                      *)
(* A window is malloc'ed, so a cell never written holds an              *)
(* indeterminate byte: the state carries one byte value, garbage, that  *)
(* such a read returns.  The window itself is the sequence of bytes     *)
(* written to it so far; write number p (from 0) went to cell           *)
(* p mod window_size, because window_pos starts at 0 and advances by    *)
(* one per write.                                                       *)
(* ------------------------------------------------------------------ *)

WinGet(window, window_size, idx, garbage) ==
    LET n == Len(window)
    IN  IF n <= idx THEN garbage
        ELSE window[idx + window_size * ((n - 1 - idx) \div window_size) + 1]

(* ------------------------------------------------------------------ *)
(* DEFLATE decoder (deflate-dec.inc.c)                                  *)
(*                                                                      *)
(* A decoder configuration d joins the caller's z_stream (in = the      *)
(* bytes at next_in, avail_in = Len(in); out = every byte written to    *)
(* next_out since inflateInit2, total_out = Len(out); avail_out) and    *)
(* the inflate_state.  ub records that the run read outside an array.   *)
(* ------------------------------------------------------------------ *)

\* raw sessions only (windowBits < 0): wrap = WRAP_NONE, no header to peel
inflateInit2(windowBits, garbage) ==
    LET actual_bits == IF -windowBits < 8 THEN 8
                       ELSE IF -windowBits > 15 THEN 15 ELSE -windowBits
    IN  [in |-> << >>, total_in |-> 0, out |-> << >>, avail_out |-> 0,
         bit_buffer |-> 0, bits_in_buffer |-> 0, final_block |-> 0,
         literals |-> EmptyTable, distances |-> EmptyTable,
         state |-> 0, btype |-> 0,
         window |-> << >>, window_size |-> 2 ^ actual_bits, window_pos |-> 0,
         pending_copy |-> 0, pending_length |-> 0, pending_distance |-> 0,
         pending_literal |-> -1,
         garbage |-> garbage, ub |-> FALSE]

\* one byte to next_out and to the window
EmitByte(d, byte) ==
    [d EXCEPT !.out = Append(@, byte), !.avail_out = @ - 1,
              !.window = Append(@, byte),
              !.window_pos = (@ + 1) % d.window_size]

get_bit(d) ==
    IF d.bits_in_buffer = 0 /\ Len(d.in) = 0
    THEN [d |-> d, v |-> -1]
    ELSE LET l == IF d.bits_in_buffer = 0
                  THEN [d EXCEPT !.bit_buffer = Head(d.in), !.in = Tail(@),
                                 !.total_in = @ + 1, !.bits_in_buffer = 8]
                  ELSE d
         IN  [d |-> [l EXCEPT !.bit_buffer = @ \div 2, !.bits_in_buffer = @ - 1],
              v |-> l.bit_buffer % 2]

RECURSIVE get_bits_slow(_, _, _, _)
get_bits_slow(d, n, i, result) ==
    IF i >= n THEN [d |-> d, v |-> result]
    ELSE Bind(get_bit(d), LAMBDA b :
              IF b.v < 0 THEN [d |-> b.d, v |-> -1]
              ELSE get_bits_slow(b.d, n, i + 1, result + b.v * (2 ^ i)))

get_bits(d, n) ==
    IF d.bits_in_buffer >= n
    THEN [d |-> [d EXCEPT !.bit_buffer = @ \div (2 ^ n), !.bits_in_buffer = @ - n],
          v |-> d.bit_buffer % (2 ^ n)]
    ELSE get_bits_slow(d, n, 0, 0)

\* The bit-at-a-time Huffman decode loop over the first n symbols of table,
\* entered with len = 1 and code = 0.  v is the symbol, -1 when the input ran
\* out, -2 when no code of up to 15 bits matched.
RECURSIVE decode_symbol(_, _, _, _, _)
decode_symbol(d, table, n, len, code) ==
    IF len > 15 THEN [d |-> d, v |-> -2]
    ELSE Bind(get_bit(d), LAMBDA b :
              IF b.v < 0 THEN [d |-> b.d, v |-> -1]
              ELSE Bind(HuffFind(table, n, len, code * 2 + b.v), LAMBDA found :
                        IF found >= 0 THEN [d |-> b.d, v |-> found]
                        ELSE decode_symbol(b.d, table, n, len + 1, code * 2 + b.v)))

Ret(d, code) == [d |-> d, ret |-> code, done |-> TRUE]
Cont(d) == [d |-> d, ret |-> Z_OK, done |-> FALSE]

cl_order == << 16, 17, 18, 0, 8, 7, 9, 6, 10, 5, 11, 4, 12, 3, 13, 2, 14, 1, 15 >>

LL_LENGTHS_MAX == 286 + 32

\* the hclen three-bit reads into cl_lengths; v = -1 when the input ran out
RECURSIVE read_cl_lengths(_, _, _, _)
read_cl_lengths(d, cl, i, hclen) ==
    IF i >= hclen THEN [d |-> d, v |-> 0, cl |-> cl]
    ELSE Bind(get_bits(d, 3), LAMBDA g :
              IF g.v < 0 THEN [d |-> g.d, v |-> -1, cl |-> cl]
              ELSE read_cl_lengths(g.d, [cl EXCEPT ![cl_order[i + 1] + 1] = g.v],
                                   i + 1, hclen))

RECURSIVE read_ll_lengths(_, _, _, _, _)

\* symbols 16, 17 and 18 of the code-length alphabet: a run of equal lengths
read_ll_repeat(s, cl_table, ll, index, total) ==
    Bind(get_bits(s.d, IF s.v = 16 THEN 2 ELSE IF s.v = 17 THEN 3 ELSE 7), LAMBDA g :
         LET repeat_value == IF s.v = 16 THEN ll[index] ELSE 0
             repeat_count == g.v + (IF s.v = 18 THEN 11 ELSE 3)
         IN  IF g.v < 0 THEN [d |-> g.d, ok |-> FALSE, ll |-> ll]
             ELSE IF index + repeat_count > total
                     \/ index + repeat_count > LL_LENGTHS_MAX
             THEN [d |-> g.d, ok |-> FALSE, ll |-> ll]
             ELSE read_ll_lengths(g.d, cl_table,
                      [k \in 1..LL_LENGTHS_MAX |->
                          IF k > index /\ k <= index + repeat_count
                          THEN repeat_value ELSE ll[k]],
                      index + repeat_count, total))

\* the while loop filling ll_lengths; ok = FALSE on every Z_DATA_ERROR return
read_ll_lengths(d, cl_table, ll, index, total) ==
    IF ~(index < total /\ index < LL_LENGTHS_MAX)
    THEN [d |-> d, ok |-> TRUE, ll |-> ll]
    ELSE Bind(decode_symbol(d, cl_table, 19, 1, 0), LAMBDA s :
              IF s.v < 0 THEN [d |-> s.d, ok |-> FALSE, ll |-> ll]
              ELSE IF s.v < 16
              THEN read_ll_lengths(s.d, cl_table, [ll EXCEPT ![index + 1] = s.v],
                                   index + 1, total)
              ELSE IF s.v = 16 /\ index = 0 THEN [d |-> s.d, ok |-> FALSE, ll |-> ll]
              ELSE read_ll_repeat(s, cl_table, ll, index, total))

\* read_dynamic_huffman: the configuration after the call and its return code.
\* ll_lengths has LL_LENGTHS_MAX entries; the distance lengths are read from
\* ll_lengths + hlit, which runs past the array when hlit + hdist exceeds it.
\* the two tables built from the lengths read: r is what read_ll_lengths left
read_dynamic_tables(r, hlit, hdist) ==
    Bind(build_huffman_tree(r.d.literals, r.ll, hlit), LAMBDA lit :
    Bind(build_huffman_tree(r.d.distances,
                            [i \in 1..hdist |->
                               IF hlit + i <= LL_LENGTHS_MAX THEN r.ll[hlit + i]
                               ELSE r.d.garbage],
                            hdist), LAMBDA dst :
         IF lit.ret # Z_OK THEN [d |-> r.d, ret |-> Z_DATA_ERROR]
         ELSE IF dst.ret # Z_OK
         THEN [d |-> [r.d EXCEPT !.literals = lit.table,
                                 !.ub = @ \/ hlit + hdist > LL_LENGTHS_MAX],
               ret |-> Z_DATA_ERROR]
         ELSE [d |-> [r.d EXCEPT !.literals = lit.table, !.distances = dst.table,
                                 !.ub = @ \/ hlit + hdist > LL_LENGTHS_MAX],
               ret |-> Z_OK]))

\* from the code-length code lengths on: c is what read_cl_lengths left
read_dynamic_lengths(c, hlit, hdist) ==
    Bind(build_huffman_tree(EmptyTable, c.cl, 19), LAMBDA clb :
         IF clb.ret # Z_OK THEN [d |-> c.d, ret |-> Z_DATA_ERROR]
         ELSE Bind(read_ll_lengths(c.d, clb.table, Rep(0, LL_LENGTHS_MAX), 0,
                                   hlit + hdist), LAMBDA r :
                   IF ~r.ok THEN [d |-> r.d, ret |-> Z_DATA_ERROR]
                   ELSE read_dynamic_tables(r, hlit, hdist)))

read_dynamic_huffman(d) ==
    Bind(get_bits(d, 5), LAMBDA g1 :
    IF g1.v < 0 THEN [d |-> g1.d, ret |-> Z_DATA_ERROR]
    ELSE Bind(get_bits(g1.d, 5), LAMBDA g2 :
    IF g2.v < 0 THEN [d |-> g2.d, ret |-> Z_DATA_ERROR]
    ELSE Bind(get_bits(g2.d, 4), LAMBDA g3 :
    IF g3.v < 0 THEN [d |-> g3.d, ret |-> Z_DATA_ERROR]
    ELSE Bind(read_cl_lengths(g3.d, Rep(0, 19), 0, g3.v + 4), LAMBDA c :
    IF c.v < 0 THEN [d |-> c.d, ret |-> Z_DATA_ERROR]
    ELSE read_dynamic_lengths(c, g1.v + 257, g2.v + 1)))))

read_uncompressed_block(d) ==
    LET d0 == [d EXCEPT !.bits_in_buffer = 0]
        len == d0.in[1] + 256 * d0.in[2]
        nlen == d0.in[3] + 256 * d0.in[4]
        d1 == [d0 EXCEPT !.in = SubSeq(@, 5, Len(@)), !.total_in = @ + 4]
        data == SubSeq(d1.in, 1, len)
    IN  IF Len(d0.in) < 4 THEN [d |-> d0, ret |-> Z_DATA_ERROR]
        ELSE IF len # 65535 - nlen THEN [d |-> d1, ret |-> Z_DATA_ERROR]
        ELSE IF Len(d1.in) < len THEN [d |-> d1, ret |-> Z_DATA_ERROR]
        ELSE IF d1.avail_out < len THEN [d |-> d1, ret |-> Z_BUF_ERROR]
        ELSE [d |-> [d1 EXCEPT !.in = SubSeq(@, len + 1, Len(@)),
                               !.total_in = @ + len,
                               !.out = @ \o data, !.avail_out = @ - len,
                               !.window = @ \o data,
                               !.window_pos = (@ + len) % d.window_size],
              ret |-> Z_OK]

\* a read of a window cell that was never written yields the indeterminate byte
RECURSIVE do_copy_from_window(_, _, _)
do_copy_from_window(d, length, distance) ==
    IF length > 0 /\ d.avail_out > 0
    THEN LET idx == (d.window_pos - distance) % d.window_size
             byte == WinGet(d.window, d.window_size, idx, d.garbage)
             e == EmitByte(d, byte)
         IN  do_copy_from_window([e EXCEPT !.ub = @ \/ Len(d.window) <= idx],
                                 length - 1, distance)
    ELSE IF length > 0
    THEN [d EXCEPT !.pending_copy = 1, !.pending_length = length,
                   !.pending_distance = distance]
    ELSE [d EXCEPT !.pending_copy = 0]

\* case 2 of the switch, from a decoded length symbol (257..285) on
\* the copy of a match once its length and distance symbol s are known;
\* dist_base and dist_extra have 30 entries, symbols 30 and 31 read past them
inflate_distance(d, s, length) ==
    LET past == s.v >= 30
        dist_extra_bits == IF past THEN s.d.garbage % 16 ELSE dist_extra[s.v + 1]
    IN  Bind(IF dist_extra_bits > 0 THEN get_bits(s.d, dist_extra_bits)
             ELSE [d |-> s.d, v |-> 0], LAMBDA h :
        IF h.v < 0 THEN Ret(h.d, Z_DATA_ERROR)
        ELSE IF (IF past THEN 1 + s.d.garbage ELSE dist_base[s.v + 1]) + h.v > d.window_size
        THEN Ret(h.d, Z_DATA_ERROR)
        ELSE Bind(do_copy_from_window(
                      [h.d EXCEPT !.ub = @ \/ past], length,
                      (IF past THEN 1 + s.d.garbage ELSE dist_base[s.v + 1]) + h.v),
                  LAMBDA c : IF c.pending_copy # 0 THEN Ret(c, Z_OK) ELSE Cont(c)))

inflate_length(d, code) ==
    Bind(IF length_extra[code - 257 + 1] > 0 THEN get_bits(d, length_extra[code - 257 + 1])
         ELSE [d |-> d, v |-> 0], LAMBDA g :
    IF g.v < 0 THEN Ret(g.d, Z_DATA_ERROR)
    ELSE Bind(decode_symbol(g.d, g.d.distances, g.d.distances.count, 1, 0), LAMBDA s :
         IF s.v < 0 THEN Ret(s.d, Z_DATA_ERROR)
         ELSE inflate_distance(d, s, length_base[code - 257 + 1] + g.v)))

\* the body of the switch for one pass of the main loop
\* case 2 of the switch: one symbol of the literal/length alphabet
inflate_symbol(d) ==
    Bind(decode_symbol(d, d.literals, d.literals.count, 1, 0), LAMBDA s :
         IF s.v < 0 THEN Ret(s.d, Z_DATA_ERROR)
         ELSE IF s.v < 256
         THEN IF s.d.avail_out = 0
              THEN Ret([s.d EXCEPT !.pending_literal = s.v], Z_OK)
              ELSE Cont(EmitByte(s.d, s.v))
         ELSE IF s.v = 256
         THEN IF s.d.final_block # 0
              THEN Ret([s.d EXCEPT !.state = 0], Z_STREAM_END)
              ELSE Cont([s.d EXCEPT !.state = 0])
         ELSE IF s.v <= 285 THEN inflate_length(s.d, s.v)
         ELSE Ret(s.d, Z_DATA_ERROR))

inflate_body(d) ==
    IF d.state = 0
    THEN Bind(get_bit(d), LAMBDA b :
              IF b.v < 0 THEN Ret([b.d EXCEPT !.final_block = b.v], Z_DATA_ERROR)
              ELSE Bind(get_bits(b.d, 2), LAMBDA g :
                        Cont([g.d EXCEPT !.final_block = b.v, !.btype = g.v, !.state = 1])))
    ELSE IF d.state = 1
    THEN IF d.btype = BLOCK_UNCOMPRESSED
         THEN Bind(read_uncompressed_block(d), LAMBDA r :
                   IF r.ret # Z_OK THEN Ret(r.d, r.ret)
                   ELSE Cont([r.d EXCEPT !.state = 0]))
         ELSE IF d.btype = BLOCK_FIXED
         THEN Cont([init_fixed_huffman(d) EXCEPT !.state = 2])
         ELSE IF d.btype = BLOCK_DYNAMIC
         THEN Bind(read_dynamic_huffman(d), LAMBDA r :
                   IF r.ret # Z_OK THEN Ret(r.d, Z_DATA_ERROR)
                   ELSE Cont([r.d EXCEPT !.state = 2]))
         ELSE Ret(d, Z_DATA_ERROR)
    ELSE IF d.state = 2 THEN inflate_symbol(d)
    ELSE Ret(d, Z_STREAM_ERROR)

\* the main decompression loop with its two end-of-pass checks and the
\* three returns that follow the loop
RECURSIVE inflate_loop(_, _)
inflate_loop(d, flush) ==
    IF Len(d.in) > 0
    THEN Bind(inflate_body(d), LAMBDA r :
              IF r.done THEN [d |-> r.d, ret |-> r.ret]
              ELSE IF r.d.final_block # 0 /\ r.d.state = 0
              THEN [d |-> r.d, ret |-> Z_STREAM_END]
              ELSE IF flush = Z_FINISH /\ Len(r.d.in) = 0
              THEN IF r.d.final_block = 0 \/ r.d.state # 0
                   THEN [d |-> r.d, ret |-> Z_BUF_ERROR]
                   ELSE [d |-> r.d, ret |-> Z_STREAM_END]
              ELSE inflate_loop(r.d, flush))
    ELSE IF d.final_block # 0 /\ d.state = 0 THEN [d |-> d, ret |-> Z_STREAM_END]
    ELSE IF d.avail_out = 0 THEN [d |-> d, ret |-> Z_OK]
    ELSE [d |-> d, ret |-> Z_BUF_ERROR]

\* inflate on a raw session: pending literal, pending copy, then the loop
inflate(d, flush) ==
    IF d.pending_literal >= 0 /\ d.avail_out = 0 THEN [d |-> d, ret |-> Z_OK]
    ELSE Bind(IF d.pending_literal >= 0
              THEN [EmitByte(d, d.pending_literal) EXCEPT !.pending_literal = -1]
              ELSE d, LAMBDA d1 :
         Bind(IF d1.pending_copy # 0
              THEN do_copy_from_window(d1, d1.pending_length, d1.pending_distance)
              ELSE d1, LAMBDA d2 :
              IF d2.pending_copy # 0 THEN [d |-> d2, ret |-> Z_OK]
              ELSE inflate_loop(d2, flush)))

(* ------------------------------------------------------------------ *)
(* DEFLATE encoder (deflate-enc.inc.c)                                  *)
(*                                                                      *)
(* An encoder configuration e joins the caller's z_stream (in, out,     *)
(* avail_out as for the decoder) and the deflate_state.  hash_table is  *)
(* the set of its non-zero cells, as a function from cell to value.     *)
(* ------------------------------------------------------------------ *)

RECURSIVE BitOr(_, _)
BitOr(a, b) ==
    IF a = 0 THEN b
    ELSE IF b = 0 THEN a
    ELSE 2 * BitOr(a \div 2, b \div 2) + (IF a % 2 = 1 \/ b % 2 = 1 THEN 1 ELSE 0)

calculate_hash(data) == data[1] * 65536 + data[2] * 256 + data[3]

init_fixed_huffman_deflate(e) ==
    [e EXCEPT
       !.literals = [codes |-> [i \in 1..288 |->
                                  IF i - 1 < 144 THEN 48 + (i - 1)
                                  ELSE IF i - 1 < 256 THEN 400 + (i - 1 - 144)
                                  ELSE IF i - 1 < 280 THEN i - 1 - 256
                                  ELSE 192 + (i - 1 - 280)],
                     lengths |-> [i \in 1..288 |->
                                  IF i - 1 < 144 THEN 8
                                  ELSE IF i - 1 < 256 THEN 9
                                  ELSE IF i - 1 < 280 THEN 7 ELSE 8],
                     count |-> 288],
       !.distances = [codes |-> [i \in 1..288 |-> IF i <= 32 THEN i - 1 ELSE 0],
                      lengths |-> [i \in 1..288 |-> IF i <= 32 THEN 5 ELSE 0],
                      count |-> 32]]

\* the session after deflateInit2 (level already given; method, memLevel and
\* strategy are ignored by the code), and the return code
deflateInit2(level, windowBits, garbage) ==
    LET abs_windowBits == IF windowBits < 0 THEN -windowBits ELSE windowBits
        e0 == [in |-> << >>, total_in |-> 0, out |-> << >>, avail_out |-> 0,
               level |-> IF level = Z_DEFAULT_COMPRESSION THEN 6 ELSE level,
               is_last_block |-> 0,
               window |-> << >>, window_size |-> 2 ^ abs_windowBits, window_pos |-> 0,
               hash_table |-> << >>, hash_size |-> 2 ^ (abs_windowBits - 3),
               bit_buffer |-> 0, bits_in_buffer |-> 0,
               literals |-> EmptyTable, distances |-> EmptyTable,
               garbage |-> garbage, ub |-> FALSE]
    IN  IF abs_windowBits < 8 \/ abs_windowBits > 15
        THEN [e |-> e0, ret |-> Z_STREAM_ERROR]
        ELSE [e |-> init_fixed_huffman_deflate(e0), ret |-> Z_OK]

\* the byte-draining loop of write_bits
RECURSIVE write_bits_drain(_)
write_bits_drain(e) ==
    IF e.bits_in_buffer >= 8
    THEN IF e.avail_out = 0 THEN [e |-> e, ret |-> Z_BUF_ERROR]
         ELSE write_bits_drain([e EXCEPT !.out = Append(@, e.bit_buffer % 256),
                                         !.avail_out = @ - 1,
                                         !.bit_buffer = @ \div 256,
                                         !.bits_in_buffer = @ - 8])
    ELSE [e |-> e, ret |-> Z_OK]

write_bits(e, bits, num_bits) ==
    write_bits_drain([e EXCEPT !.bit_buffer = BitOr(@, bits * (2 ^ e.bits_in_buffer)),
                               !.bits_in_buffer = @ + num_bits])

flush_bits(e) ==
    IF e.bits_in_buffer > 0
    THEN IF e.avail_out = 0 THEN [e |-> e, ret |-> Z_BUF_ERROR]
         ELSE [e |-> [e EXCEPT !.out = Append(@, e.bit_buffer % 256),
                               !.avail_out = @ - 1,
                               !.bit_buffer = 0, !.bits_in_buffer = 0],
               ret |-> Z_OK]
    ELSE [e |-> e, ret |-> Z_OK]

\* the code is handed to write_bits as it stands in the table
write_huffman_code(e, code, code_length) == write_bits(e, code, code_length)

HashGet(e, hash) == IF hash \in DOMAIN e.hash_table THEN e.hash_table[hash] ELSE 0

HashPut(e, hash, v) ==
    [h \in (DOMAIN e.hash_table) \cup {hash} |-> IF h = hash THEN v ELSE e.hash_table[h]]

EncWin(e, idx) == WinGet(e.window, e.window_size, idx % e.window_size, e.garbage)

\* the inner while of find_longest_match: the length reached from len, the
\* first one at which the loop condition fails
match_extend(e, win_idx, data, len, max_len) ==
    LET stop == {l \in len..max_len :
                    l = max_len \/ EncWin(e, win_idx + l) # data[l + 1]}
    IN  CHOOSE l \in stop : \A m \in stop : l <= m

\* find_longest_match: the session with the hash table updated, the best
\* length and its position.  Window cells at or past the number of bytes
\* written so far were never written.
\* the comparison of the candidate at chain_pos with data; e1 is the session
\* with the hash table updated
match_at(e, e1, data, chain_pos, max_len) ==
    LET win_idx == chain_pos % e.window_size
        hit == EncWin(e, win_idx) = data[1]
               /\ EncWin(e, win_idx + 1) = data[2]
               /\ EncWin(e, win_idx + 2) = data[3]
    IN  Bind(IF hit THEN match_extend(e, win_idx, data, 3, max_len) ELSE 0, LAMBDA len :
        Bind(IF hit THEN win_idx + Min(len, max_len - 1)
             ELSE IF EncWin(e, win_idx) # data[1] THEN win_idx
             ELSE IF EncWin(e, win_idx + 1) # data[2] THEN win_idx + 1
             ELSE win_idx + 2, LAMBDA last :
             [e |-> [e1 EXCEPT !.ub = @ \/ (Len(e.window) < e.window_size
                                            /\ last >= Len(e.window))],
              len |-> len, match_pos |-> IF len > 0 THEN chain_pos ELSE 0]))

find_longest_match(e, data, pos, max_len) ==
    IF max_len < 3 THEN [e |-> e, len |-> 0, match_pos |-> 0]
    ELSE Bind(calculate_hash(data) % e.hash_size, LAMBDA hash :
         Bind(HashGet(e, hash), LAMBDA stored :
         Bind([e EXCEPT !.hash_table = HashPut(e, hash, ((pos % 65536) + 1) % 65536)],
              LAMBDA e1 :
              IF stored = 0 THEN [e |-> e1, len |-> 0, match_pos |-> 0]
              ELSE IF pos > stored - 1 + 32768 THEN [e |-> e1, len |-> 0, match_pos |-> 0]
              ELSE IF stored - 1 > 0 THEN match_at(e, e1, data, stored - 1, max_len)
              ELSE [e |-> e1, len |-> 0, match_pos |-> 0])))

\* length symbol and number of extra bits for a match length 3..258
LengthCode(match_len) ==
    IF match_len <= 10 THEN [code |-> 257 + (match_len - 3), extra_bits |-> 0]
    ELSE IF match_len <= 18 THEN [code |-> 265 + ((match_len - 11) \div 2), extra_bits |-> 1]
    ELSE IF match_len <= 34 THEN [code |-> 269 + ((match_len - 19) \div 4), extra_bits |-> 2]
    ELSE IF match_len <= 66 THEN [code |-> 273 + ((match_len - 35) \div 8), extra_bits |-> 3]
    ELSE IF match_len <= 130 THEN [code |-> 277 + ((match_len - 67) \div 16), extra_bits |-> 4]
    ELSE [code |-> 281 + ((match_len - 131) \div 32), extra_bits |-> 5]

\* how many match lengths share the four symbols that carry extra_bits extra bits
LengthGroupSize(extra_bits) == 4 * (2 ^ extra_bits)

LengthExtraBase(extra_bits) ==
    IF extra_bits = 1 THEN 11 ELSE IF extra_bits = 2 THEN 19
    ELSE IF extra_bits = 3 THEN 35 ELSE IF extra_bits = 4 THEN 67 ELSE 131

\* distance symbol and number of extra bits for a distance 1..32768
DistanceCode(distance) ==
    IF distance <= 4 THEN [code |-> distance - 1, extra_bits |-> 0]
    ELSE IF distance <= 8 THEN [code |-> 4 + ((distance - 5) \div 2), extra_bits |-> 1]
    ELSE IF distance <= 16 THEN [code |-> 6 + ((distance - 9) \div 4), extra_bits |-> 2]
    ELSE IF distance <= 32 THEN [code |-> 8 + ((distance - 17) \div 8), extra_bits |-> 3]
    ELSE IF distance <= 64 THEN [code |-> 10 + ((distance - 33) \div 16), extra_bits |-> 4]
    ELSE IF distance <= 128 THEN [code |-> 12 + ((distance - 65) \div 32), extra_bits |-> 5]
    ELSE IF distance <= 256 THEN [code |-> 14 + ((distance - 129) \div 64), extra_bits |-> 6]
    ELSE IF distance <= 512 THEN [code |-> 16 + ((distance - 257) \div 128), extra_bits |-> 7]
    ELSE IF distance <= 1024 THEN [code |-> 18 + ((distance - 513) \div 256), extra_bits |-> 8]
    ELSE IF distance <= 2048 THEN [code |-> 20 + ((distance - 1025) \div 512), extra_bits |-> 9]
    ELSE IF distance <= 4096 THEN [code |-> 22 + ((distance - 2049) \div 1024), extra_bits |-> 10]
    ELSE IF distance <= 8192 THEN [code |-> 24 + ((distance - 4097) \div 2048), extra_bits |-> 11]
    ELSE IF distance <= 16384 THEN [code |-> 26 + ((distance - 8193) \div 4096), extra_bits |-> 12]
    ELSE [code |-> 28 + ((distance - 16385) \div 8192), extra_bits |-> 13]

dist_base_values == << 1, 5, 9, 17, 33, 65, 129, 257, 513, 1025, 2049, 4097, 8193, 16385 >>

\* the for loop that moves a match into the window: n passes, stopping early
\* when the input is used up; a long run is its first half and then the rest
RECURSIVE deflate_advance(_, _)
deflate_advance(e, n) ==
    IF n = 0 \/ Len(e.in) = 0 THEN e
    ELSE IF n = 1
    THEN [e EXCEPT !.window = Append(@, Head(e.in)),
                   !.window_pos = (@ + 1) % e.window_size,
                   !.in = Tail(@), !.total_in = @ + 1]
    ELSE Bind(deflate_advance(e, n \div 2), LAMBDA e1 :
              deflate_advance(e1, n - n \div 2))

\* the length/distance branch of the symbol loop (write results are not checked)
\* the distance symbol and its extra bits, then the window update
deflate_distance(w2, distance, match_len) ==
    Bind(DistanceCode(distance), LAMBDA dc :
    Bind(write_huffman_code(w2, w2.distances.codes[dc.code + 1],
                            w2.distances.lengths[dc.code + 1]).e, LAMBDA w3 :
         deflate_advance(IF dc.extra_bits > 0
                         THEN write_bits(w3, (distance - dist_base_values[dc.extra_bits + 1])
                                               % (2 ^ dc.extra_bits), dc.extra_bits).e
                         ELSE w3,
                         match_len)))

deflate_match(e, match_len, match_pos) ==
    Bind(LengthCode(match_len), LAMBDA lc :
    Bind(write_huffman_code(e, e.literals.codes[lc.code + 1],
                            e.literals.lengths[lc.code + 1]).e, LAMBDA w1 :
         deflate_distance(IF lc.extra_bits > 0
                          THEN write_bits(w1, (match_len - LengthExtraBase(lc.extra_bits))
                                                % (2 ^ lc.extra_bits), lc.extra_bits).e
                          ELSE w1,
                          e.window_pos - match_pos, match_len)))

deflate_literal(e) ==
    Bind(write_huffman_code(e, e.literals.codes[Head(e.in) + 1],
                            e.literals.lengths[Head(e.in) + 1]).e, LAMBDA w :
         [w EXCEPT !.window = Append(@, Head(e.in)),
                   !.window_pos = (@ + 1) % e.window_size,
                   !.in = Tail(@), !.total_in = @ + 1])

\* one pass of the loop "Process all input data", on input that is not used up
deflate_pass(e) ==
    IF e.avail_out < 4 THEN [e |-> e, ret |-> Z_BUF_ERROR]
    ELSE Bind(IF e.level >= 3 /\ Min(Len(e.in), 258) >= 3
              THEN find_longest_match(e, e.in, e.window_pos, Min(Len(e.in), 258))
              ELSE [e |-> e, len |-> 0, match_pos |-> 0], LAMBDA m :
              [e |-> IF m.len >= 3 THEN deflate_match(m.e, m.len, m.match_pos)
                     ELSE deflate_literal(m.e),
               ret |-> Z_OK])

\* at most k passes from r, ended by an error or by the end of the input; a
\* long run is its first half and then the rest
RECURSIVE deflate_passes(_, _)
deflate_passes(r, k) ==
    IF r.ret # Z_OK \/ Len(r.e.in) = 0 THEN r
    ELSE IF k <= 1 THEN deflate_pass(r.e)
    ELSE Bind(deflate_passes(r, k \div 2), LAMBDA r1 :
              deflate_passes(r1, k - k \div 2))

\* "Process all input data": every pass consumes at least one byte
deflate_loop(e) == deflate_passes([e |-> e, ret |-> Z_OK], Len(e.in))

\* the stored block of level 0
deflate_stored(e) ==
    LET block_size == 1 + 4 + Len(e.in)
        len == Min(Len(e.in), 65535)
        nlen == 65535 - len
        data == SubSeq(e.in, 1, len)
    IN  IF e.avail_out < block_size THEN [e |-> e, ret |-> Z_BUF_ERROR]
        ELSE [e |-> [e EXCEPT
                       !.out = @ \o << (IF e.is_last_block # 0 THEN 1 ELSE 0),
                                       len % 256, len \div 256,
                                       nlen % 256, nlen \div 256 >> \o data,
                       !.avail_out = @ - (5 + len),
                       !.in = SubSeq(@, len + 1, Len(@)),
                       !.total_in = @ + len],
              ret |-> Z_OK]

\* the fixed-Huffman block of the other levels: header, symbols, end-of-block
deflate_fixed(e0, flush, end) ==
    Bind(write_bits(e0, IF e0.is_last_block # 0 THEN 1 ELSE 0, 1), LAMBDA h1 :
    IF h1.ret # Z_OK THEN h1
    ELSE Bind(write_bits(h1.e, 1, 2), LAMBDA h2 :
    IF h2.ret # Z_OK THEN h2
    ELSE Bind(deflate_loop(h2.e), LAMBDA l :
    IF l.ret # Z_OK THEN l
    ELSE IF flush = Z_FINISH
    THEN [e |-> flush_bits(write_huffman_code(l.e, l.e.literals.codes[257],
                                              l.e.literals.lengths[257]).e).e,
          ret |-> end]
    ELSE [e |-> l.e, ret |-> end])))

deflate(e, flush) ==
    Bind(IF flush = Z_FINISH THEN [e EXCEPT !.is_last_block = 1] ELSE e, LAMBDA e0 :
    Bind(IF flush = Z_FINISH THEN Z_STREAM_END ELSE Z_OK, LAMBDA end :
         IF e0.level = Z_NO_COMPRESSION
         THEN IF Len(e0.in) > 0
              THEN Bind(deflate_stored(e0), LAMBDA r :
                        IF r.ret # Z_OK THEN r ELSE [e |-> r.e, ret |-> end])
              ELSE [e |-> e0, ret |-> end]
         ELSE IF Len(e0.in) > 0 THEN deflate_fixed(e0, flush, end)
         ELSE [e |-> e0, ret |-> end]))

(* ------------------------------------------------------------------ *)
(* Streams handed to the decoder that the encoder did not produce:      *)
(* RFC 1951 streams of one final block.                                 *)
(* ------------------------------------------------------------------ *)

\* the n bits of code, most significant first (RFC 1951 3.1.1: Huffman codes
\* are packed starting with the most significant bit)
CodeBits(code, n) == [i \in 1..n |-> (code \div (2 ^ (n - i))) % 2]

RECURSIVE LiteralBits(_)
LiteralBits(L) ==
    IF L = << >> THEN << >>
    ELSE LET b == Head(L)
         IN  CodeBits(FixedLiterals.codes[b + 1], FixedLiterals.lengths[b + 1])
             \o LiteralBits(Tail(L))

\* bits to bytes, first bit in the least significant position, zero padded
PackBits(bits) ==
    [k \in 1..((Len(bits) + 7) \div 8) |->
        LET bit(j) == IF 8 * (k - 1) + j <= Len(bits) THEN bits[8 * (k - 1) + j] ELSE 0
        IN  bit(1) + 2 * bit(2) + 4 * bit(3) + 8 * bit(4)
            + 16 * bit(5) + 32 * bit(6) + 64 * bit(7) + 128 * bit(8)]

\* BFINAL = 1, BTYPE = 01, the literals of L, end-of-block (symbol 256)
FixedLiteralStream(L) ==
    PackBits(<< 1, 1, 0 >> \o LiteralBits(L)
             \o CodeBits(FixedLiterals.codes[257], FixedLiterals.lengths[257]))

\* BFINAL = 1, BTYPE = 00, LEN, NLEN, the bytes of L
StoredStream(L) ==
    << 1, Len(L) % 256, Len(L) \div 256,
       (65535 - Len(L)) % 256, (65535 - Len(L)) \div 256 >> \o L

\* one final dynamic-Huffman block (BTYPE = 10) and the 18 bytes it encodes
DynamicStream ==
    << 5, 193, 1, 1, 0, 0, 0, 130, 160, 173, 106, 255, 55, 4, 41, 32, 141, 210, 240 >>

DynamicPlain ==
    << 99, 98, 98, 97, 97, 97, 98, 97, 99, 100, 97, 99, 99, 98, 98, 99, 97, 98 >>

(* ------------------------------------------------------------------ *)
(* The archive file                                                     *)
(*                                                                      *)
(* A file is a sequence of segments.  A segment stands for n            *)
(* consecutive copies of data; with stride # 0 the copies are central   *)
(* directory headers and copy k (from 0) has its 32-bit field at        *)
(* offset 42 (the local header offset) advanced by k * stride.  Every   *)
(* read goes through FileByte, so a segment is only a compact way of    *)
(* holding the bytes that the writes produced.                          *)
(* ------------------------------------------------------------------ *)

Seg(data) == [data |-> data, n |-> 1, stride |-> 0]

SegLen(s) == Len(s.data) * s.n

\* copy k of a segment
SegCopy(s, k) ==
    IF s.stride = 0 THEN s.data
    ELSE [j \in 1..Len(s.data) |->
            IF j > 42 /\ j <= 46
            THEN otezip_wr32(otezip_rd32(s.data, 42) + k * s.stride)[j - 42]
            ELSE s.data[j]]

SegByte(s, off) == SegCopy(s, off \div Len(s.data))[(off % Len(s.data)) + 1]

RECURSIVE FileSize(_)
FileSize(f) == IF f = << >> THEN 0 ELSE SegLen(Head(f)) + FileSize(Tail(f))

RECURSIVE FileByte(_, _)
FileByte(f, off) ==
    IF off < SegLen(Head(f)) THEN SegByte(Head(f), off)
    ELSE FileByte(Tail(f), off - SegLen(Head(f)))

\* the n bytes at offset off (the caller has checked off + n <= FileSize(f))
FileRead(f, off, n) == [i \in 1..n |-> FileByte(f, off + i - 1)]

NonEmpty(segs) == SelectSeq(segs, LAMBDA s : SegLen(s) > 0)

\* the first at bytes of a segment, and the rest, as segments
SegTake(s, at) ==
    LET m == Len(s.data)
        k == at \div m
        r == at % m
    IN  NonEmpty(<< [s EXCEPT !.n = k], Seg(SubSeq(SegCopy(s, k), 1, r)) >>)

SegDrop(s, at) ==
    LET m == Len(s.data)
        k == at \div m
        r == at % m
        k2 == IF r > 0 THEN k + 1 ELSE k
    IN  NonEmpty(<< Seg(IF r > 0 THEN SubSeq(SegCopy(s, k), r + 1, m) ELSE << >>),
                    [s EXCEPT !.data = SegCopy(s, k2), !.n = s.n - k2] >>)

RECURSIVE FileTake(_, _)
FileTake(f, at) ==
    IF f = << >> \/ at <= 0 THEN << >>
    ELSE IF at >= SegLen(Head(f)) THEN << Head(f) >> \o FileTake(Tail(f), at - SegLen(Head(f)))
    ELSE SegTake(Head(f), at)

RECURSIVE FileDrop(_, _)
FileDrop(f, at) ==
    IF f = << >> THEN << >>
    ELSE IF at <= 0 THEN f
    ELSE IF at >= SegLen(Head(f)) THEN FileDrop(Tail(f), at - SegLen(Head(f)))
    ELSE SegDrop(Head(f), at) \o Tail(f)

\* fwrite of segs at file position pos (pos <= FileSize(f)): bytes under the
\* write are replaced, the file grows when the write runs past its end
FileWrite(f, pos, segs) ==
    FileTake(f, pos) \o NonEmpty(segs) \o FileDrop(f, pos + FileSize(segs))

(* ------------------------------------------------------------------ *)
(* Header writers and DOS time (otezip.c, time.inc.c)                   *)
(* ------------------------------------------------------------------ *)

MZIP_SIG_LFH == << 80, 75, 3, 4 >>

MZIP_SIG_CDH == << 80, 75, 1, 2 >>

MZIP_SIG_EOCD == << 80, 75, 5, 6 >>

MZIP_MAX_FIELD_LEN == 64 * 1024 - 1

OTEZIP_METHOD_STORE == 0

OTEZIP_METHOD_DEFLATE == 8

OTEZIP_METHOD_BROTLI == 97

OTEZIP_METHOD_LZ4 == 94

OTEZIP_METHOD_LZMA == 14

OTEZIP_METHOD_ZSTD == 93

OTEZIP_METHOD_LZFSE == 100

dim(value, min, max) == IF value < min THEN min ELSE IF value > max THEN max ELSE value

\* tm is the broken-down local time (tm_year from 1900, tm_mon from 0), or
\* << >> when the time could not be obtained
otezip_get_dostime(tm) ==
    IF tm = << >> THEN [dos_time |-> 0, dos_date |-> 0 * 512 + 1 * 32 + 1]
    ELSE LET year_off == dim(tm.tm_year + 1900 - 1980, 0, 127)
             mon == dim(tm.tm_mon + 1, 1, 12)
             day == dim(tm.tm_mday, 1, 31)
             hour == dim(tm.tm_hour, 0, 23)
             min == dim(tm.tm_min, 0, 59)
             sec == dim(tm.tm_sec, 0, 59)
             sec2 == dim(sec \div 2, 0, 29)
         IN  [dos_time |-> (hour * 2048 + min * 32 + sec2) % 65536,
              dos_date |-> (year_off * 512 + mon * 32 + day) % 65536]

NameLen(name) == Min(Len(name), MZIP_MAX_FIELD_LEN)

\* the 30 header bytes and the name; the time is read from the clock again
otezip_write_local_header(name, comp_method, comp_size, uncomp_size, crc32, tm) ==
    MZIP_SIG_LFH \o otezip_wr16(20) \o otezip_wr16(0) \o otezip_wr16(comp_method)
    \o otezip_wr16(otezip_get_dostime(tm).dos_time)
    \o otezip_wr16(otezip_get_dostime(tm).dos_date)
    \o crc32 \o otezip_wr32(comp_size) \o otezip_wr32(uncomp_size)
    \o otezip_wr16(NameLen(name)) \o otezip_wr16(0)
    \o SubSeq(name, 1, NameLen(name))

\* the 46 header bytes and the name of one entry
otezip_write_central_header(e) ==
    MZIP_SIG_CDH \o otezip_wr16(798) \o otezip_wr16(20) \o otezip_wr16(0)
    \o otezip_wr16(e.method) \o otezip_wr16(e.file_time) \o otezip_wr16(e.file_date)
    \o e.crc32 \o otezip_wr32(e.comp_size) \o otezip_wr32(e.uncomp_size)
    \o otezip_wr16(NameLen(e.name)) \o otezip_wr16(0) \o otezip_wr16(0)
    \o otezip_wr16(0) \o otezip_wr16(0)
    \o otezip_wr32(e.external_attr) \o otezip_wr32(e.local_hdr_ofs)
    \o SubSeq(e.name, 1, NameLen(e.name))

\* num_entries arrives as uint32_t and is narrowed to uint16_t by otezip_wr16
otezip_write_end_of_central_directory(num_entries, central_dir_size, central_dir_offset) ==
    MZIP_SIG_EOCD \o otezip_wr16(0) \o otezip_wr16(0)
    \o otezip_wr16(num_entries) \o otezip_wr16(num_entries)
    \o otezip_wr32(central_dir_size) \o otezip_wr32(central_dir_offset)
    \o otezip_wr16(0)

(* ------------------------------------------------------------------ *)
(* Reading an archive (otezip.c)                                        *)
(* ------------------------------------------------------------------ *)

OTEZIP_ERR_READ == -1

OTEZIP_ERR_INCONS == -2

\* 2 GiB as a uint32_t image
MZIP_MAX_PAYLOAD == -2147483647 - 1

\* the checks on a record that starts with the EOCD signature at base + i:
\* the record's fields when it is accepted, << >> when the scan goes on
eocd_candidate(f, file_size, rec) ==
    LET entries == otezip_rd16(rec, 10)
        cd_size_tmp == otezip_rd32(rec, 12)
        cd_ofs_tmp == otezip_rd32(rec, 16)
    IN  IF cd_ofs_tmp < 0 \/ cd_ofs_tmp > file_size
           \/ cd_size_tmp < 0 \/ cd_size_tmp > file_size - cd_ofs_tmp
        THEN << >>
        ELSE IF entries > 0 /\ cd_size_tmp >= 4
                /\ FileRead(f, cd_ofs_tmp, 4) # MZIP_SIG_CDH
        THEN << >>
        ELSE [total_entries |-> entries, cd_size |-> cd_size_tmp, cd_ofs |-> cd_ofs_tmp]

\* the for loop of otezip_find_eocd from candidate i down; base is the file
\* offset of buf[0]
RECURSIVE eocd_scan(_, _, _, _)
eocd_scan(f, file_size, base, i) ==
    IF i < 0 THEN [pos |-> OTEZIP_ERR_INCONS, total_entries |-> 0, cd_size |-> 0, cd_ofs |-> 0]
    ELSE IF FileRead(f, base + i, 4) # MZIP_SIG_EOCD THEN eocd_scan(f, file_size, base, i - 1)
    ELSE Bind(eocd_candidate(f, file_size, FileRead(f, base + i, 22)), LAMBDA c :
              IF c = << >> THEN eocd_scan(f, file_size, base, i - 1)
              ELSE [pos |-> base + i, total_entries |-> c.total_entries,
                    cd_size |-> c.cd_size, cd_ofs |-> c.cd_ofs])

otezip_find_eocd(f) ==
    Bind(FileSize(f), LAMBDA file_size :
         IF file_size < 22
         THEN [pos |-> OTEZIP_ERR_INCONS, total_entries |-> 0, cd_size |-> 0, cd_ofs |-> 0]
         ELSE eocd_scan(f, file_size, file_size - Min(file_size, 65536 + 22),
                        Min(file_size, 65536 + 22) - 22))

\* the entry that the 46 bytes h of a central header describe, without its name
central_entry(h) ==
    [name |-> << >>,
     local_hdr_ofs |-> otezip_rd32(h, 42),
     comp_size |-> otezip_rd32(h, 20),
     uncomp_size |-> otezip_rd32(h, 24),
     method |-> otezip_rd16(h, 10),
     crc32 |-> Bytes(h, 16, 4),
     file_time |-> otezip_rd16(h, 12),
     file_date |-> otezip_rd16(h, 14),
     external_attr |-> otezip_rd32(h, 38)]

\* the entry loop of otezip_load_central: cd_buf[j] is the file byte at
\* cd_ofs + j.  acc holds the entries filled so far; dangling tells that the
\* failing entry keeps a pointer to a name that was freed.
RECURSIVE load_entries(_, _, _, _, _, _, _)
load_entries(f, cd_ofs, cd_size, n_entries, i, off, acc) ==
    IF i >= n_entries THEN [ret |-> 0, entries |-> acc, dangling |-> FALSE]
    ELSE IF off + 46 > cd_size
    THEN [ret |-> OTEZIP_ERR_INCONS, entries |-> acc, dangling |-> FALSE]
    ELSE Bind(FileRead(f, cd_ofs + off, 46), LAMBDA h :
         IF Bytes(h, 0, 4) # MZIP_SIG_CDH
         THEN [ret |-> OTEZIP_ERR_INCONS, entries |-> acc, dangling |-> FALSE]
         ELSE Bind(central_entry(h), LAMBDA e :
              IF ULt(MZIP_MAX_PAYLOAD, e.comp_size) \/ ULt(MZIP_MAX_PAYLOAD, e.uncomp_size)
              THEN [ret |-> OTEZIP_ERR_INCONS, entries |-> acc, dangling |-> FALSE]
              ELSE IF 46 + otezip_rd16(h, 28) > cd_size - off
              THEN [ret |-> OTEZIP_ERR_INCONS, entries |-> acc, dangling |-> TRUE]
              ELSE Bind(Append(acc, [e |-> [e EXCEPT !.name =
                                               FileRead(f, cd_ofs + off + 46,
                                                        otezip_rd16(h, 28))],
                                     n |-> 1, stride |-> 0]), LAMBDA acc2 :
                   IF 46 + otezip_rd16(h, 28) + otezip_rd16(h, 30) + otezip_rd16(h, 32)
                      > cd_size - off
                   THEN [ret |-> OTEZIP_ERR_INCONS, entries |-> acc2, dangling |-> FALSE]
                   ELSE load_entries(f, cd_ofs, cd_size, n_entries, i + 1,
                                     off + 46 + otezip_rd16(h, 28) + otezip_rd16(h, 30)
                                         + otezip_rd16(h, 32),
                                     acc2))))

\* otezip_load_central: return code, the entries filled, za->n_entries and the
\* file position afterwards.  calloc (0, ...) may return NULL.
otezip_load_central(f, malloc0_null) ==
    Bind(otezip_find_eocd(f), LAMBDA eo :
         IF eo.pos < 0
         THEN [ret |-> eo.pos, entries |-> << >>, n_entries |-> 0, dangling |-> FALSE,
               pos |-> FileSize(f)]
         ELSE IF eo.cd_size = 0
         THEN [ret |-> OTEZIP_ERR_INCONS, entries |-> << >>, n_entries |-> 0,
               dangling |-> FALSE, pos |-> eo.cd_ofs]
         ELSE IF eo.total_entries = 0 /\ malloc0_null
         THEN [ret |-> OTEZIP_ERR_READ, entries |-> << >>, n_entries |-> 0,
               dangling |-> FALSE, pos |-> eo.cd_ofs + eo.cd_size]
         ELSE Bind(load_entries(f, eo.cd_ofs, eo.cd_size, eo.total_entries, 0, 0, << >>),
                   LAMBDA l :
                   [ret |-> l.ret, entries |-> l.entries, n_entries |-> eo.total_entries,
                    dangling |-> l.dangling, pos |-> eo.cd_ofs + eo.cd_size]))

(* ------------------------------------------------------------------ *)
(* The Brotli shim (brotli.inc.c)                                       *)
(* ------------------------------------------------------------------ *)

BROT == << 66, 82, 79, 84 >>

\* a little-endian 64-bit length: its value when below 2^31, else -1
read_le64(b, p) ==
    IF b[p + 5] = 0 /\ b[p + 6] = 0 /\ b[p + 7] = 0 /\ b[p + 8] = 0 /\ b[p + 4] < 128
    THEN otezip_rd32(b, p) ELSE -1

simple_compress(input) ==
    BROT \o << 1 >> \o otezip_wr32(Len(input)) \o << 0, 0, 0, 0 >>
    \o otezip_crc32(CrcZero, input) \o input

\* the number of bytes produced and the bytes; 0 also stands for every failure
simple_decompress(input, output_len) ==
    IF Len(input) < 17 THEN [n |-> 0, data |-> << >>]
    ELSE IF Bytes(input, 0, 4) # BROT THEN [n |-> 0, data |-> << >>]
    ELSE Bind(read_le64(input, 5), LAMBDA stored_len :
         IF stored_len < 0 \/ stored_len > output_len THEN [n |-> 0, data |-> << >>]
         ELSE IF Len(input) < 17 + stored_len THEN [n |-> 0, data |-> << >>]
         ELSE Bind(Bytes(input, 17, stored_len), LAMBDA data :
              IF Bytes(input, 13, 4) # otezip_crc32(CrcZero, data)
              THEN [n |-> 0, data |-> << >>]
              ELSE [n |-> stored_len, data |-> data]))

brotliDecompress(input, avail_out) ==
    Bind(simple_decompress(input, avail_out), LAMBDA r :
         IF r.n = 0
         THEN IF Len(input) >= 13 /\ read_le64(input, 5) = 0
              THEN [ret |-> Z_STREAM_END, out |-> << >>]
              ELSE [ret |-> Z_DATA_ERROR, out |-> << >>]
         ELSE [ret |-> Z_STREAM_END, out |-> r.data])

(* ------------------------------------------------------------------ *)
(* Extraction (otezip_extract_entry)                                    *)
(* ------------------------------------------------------------------ *)

otezip_max_expansion_ratio == 1000

otezip_max_expansion_slack == 1024 * 1024

\* (uint64_t) uncomp_size > (uint64_t) comp_size * ratio + slack, on images of
\* sizes not above 2 GiB, without leaving 32-bit arithmetic
ExpansionExceeded(comp_size, uncomp_size) ==
    IF uncomp_size < 0
    THEN comp_size <= (2147483647 - otezip_max_expansion_slack) \div otezip_max_expansion_ratio
    ELSE /\ uncomp_size > otezip_max_expansion_slack
         /\ comp_size <= 2147483647 \div otezip_max_expansion_ratio
         /\ uncomp_size - otezip_max_expansion_slack > comp_size * otezip_max_expansion_ratio

\* The outcome of otezip_extract_entry on file f for entry e.
\*   ret          0 or -1
\*   data, zeros  the delivered buffer: data followed by zeros bytes of value 0
\*   size         *out_sz
\*   decoded      the number of bytes the codec produced (STORE: comp_size)
\*   alloc_uncomp a buffer of e.uncomp_size bytes was allocated
\*   guard        the expansion guard rejected the entry
\*   ub           bytes outside the payload buffer were read
\*   pos          the file position afterwards
\* garbage is the content of cells never written, oob_crc_match the result of
\* comparing a CRC taken over bytes outside the buffer.  ExtractFail (p) is a
\* failed extraction that leaves the file position at p.
ExtractFail(p) ==
    [ret |-> -1, data |-> << >>, zeros |-> 0, size |-> 0, decoded |-> 0,
     alloc_uncomp |-> FALSE, guard |-> FALSE, ub |-> FALSE, pos |-> p]

\* the method switch and the CRC check, on the payload cbuf that was read;
\* after is the file position behind the payload
extract_payload(e, cbuf, after, verify_crc, malloc0_null, garbage, oob_crc_match) ==
    IF e.method = OTEZIP_METHOD_STORE
    THEN \* ubuf = cbuf, a buffer of max(comp_size, 1) bytes
         LET over == ULt(e.comp_size, e.uncomp_size)
             buf == IF over THEN cbuf ELSE SubSeq(cbuf, 1, e.uncomp_size)
         IN  IF verify_crc # 0 /\ (IF over THEN ~oob_crc_match
                                   ELSE otezip_crc32(CrcZero, buf) # e.crc32)
             THEN [ExtractFail(after) EXCEPT !.ub = over, !.decoded = e.comp_size]
             ELSE [ret |-> 0, data |-> buf, zeros |-> 0, size |-> e.uncomp_size,
                   decoded |-> e.comp_size, alloc_uncomp |-> FALSE, guard |-> FALSE,
                   ub |-> over, pos |-> after]
    ELSE IF e.method = OTEZIP_METHOD_DEFLATE
    THEN IF e.uncomp_size = 0 /\ malloc0_null
         THEN [ExtractFail(after) EXCEPT !.alloc_uncomp = TRUE]
         ELSE Bind(inflate([inflateInit2(-MAX_WBITS, garbage) EXCEPT
                              !.in = cbuf, !.avail_out = e.uncomp_size], Z_FINISH),
                   LAMBDA r :
                   IF r.ret # Z_STREAM_END
                      \/ (verify_crc # 0
                          /\ otezip_crc32(CrcZero,
                                          r.d.out \o Rep(0, e.uncomp_size - Len(r.d.out)))
                             # e.crc32)
                   THEN [ExtractFail(after) EXCEPT !.alloc_uncomp = TRUE, !.ub = r.d.ub,
                                                   !.decoded = Len(r.d.out)]
                   ELSE [ret |-> 0, data |-> r.d.out,
                         zeros |-> e.uncomp_size - Len(r.d.out),
                         size |-> e.uncomp_size, decoded |-> Len(r.d.out),
                         alloc_uncomp |-> TRUE, guard |-> FALSE, ub |-> r.d.ub,
                         pos |-> after])
    ELSE IF e.method = OTEZIP_METHOD_BROTLI
    THEN IF e.uncomp_size = 0 /\ malloc0_null
         THEN [ExtractFail(after) EXCEPT !.alloc_uncomp = TRUE]
         ELSE Bind(brotliDecompress(cbuf, e.uncomp_size), LAMBDA r :
                   IF r.ret # Z_STREAM_END \/ Len(r.out) # e.uncomp_size
                      \/ (verify_crc # 0 /\ otezip_crc32(CrcZero, r.out) # e.crc32)
                   THEN [ExtractFail(after) EXCEPT !.alloc_uncomp = TRUE,
                                                   !.decoded = Len(r.out)]
                   ELSE [ret |-> 0, data |-> r.out, zeros |-> 0, size |-> e.uncomp_size,
                         decoded |-> Len(r.out), alloc_uncomp |-> TRUE, guard |-> FALSE,
                         ub |-> FALSE, pos |-> after])
    ELSE ExtractFail(after)

\* from the local header (30 bytes at local_hdr_ofs) on
extract_located(f, e, file_sz, lfh, ignore_zipbomb, verify_crc, malloc0_null, garbage, oob_crc_match) ==
    Bind(e.local_hdr_ofs + 30 + otezip_rd16(lfh, 26) + otezip_rd16(lfh, 28),
         LAMBDA data_ofs :
         IF Bytes(lfh, 0, 4) # MZIP_SIG_LFH THEN ExtractFail(e.local_hdr_ofs + 30)
         ELSE IF data_ofs > file_sz THEN ExtractFail(e.local_hdr_ofs + 30)
         ELSE IF ULt(MZIP_MAX_PAYLOAD, e.comp_size) \/ ULt(MZIP_MAX_PAYLOAD, e.uncomp_size)
         THEN ExtractFail(e.local_hdr_ofs + 30)
         ELSE IF e.comp_size < 0 \/ e.comp_size > file_sz - data_ofs
         THEN ExtractFail(e.local_hdr_ofs + 30)
         ELSE IF ignore_zipbomb = 0 /\ e.comp_size > 0
                 /\ ExpansionExceeded(e.comp_size, e.uncomp_size)
         THEN [ExtractFail(e.local_hdr_ofs + 30) EXCEPT !.guard = TRUE]
         ELSE extract_payload(e, FileRead(f, data_ofs, e.comp_size),
                              data_ofs + e.comp_size, verify_crc, malloc0_null, garbage,
                              oob_crc_match))

\* otezip_extract_entry without the strict mode: a CRC mismatch is never fatal
extract_entry_lax(f, e, ignore_zipbomb, verify_crc, malloc0_null, garbage, oob_crc_match) ==
    Bind(FileSize(f), LAMBDA file_sz :
         IF ULt(file_sz, e.local_hdr_ofs) THEN ExtractFail(file_sz)
         ELSE IF e.local_hdr_ofs + 30 > file_sz THEN ExtractFail(file_sz)
         ELSE extract_located(f, e, file_sz, FileRead(f, e.local_hdr_ofs, 30),
                              ignore_zipbomb, 0, malloc0_null, garbage, oob_crc_match))

otezip_extract_entry(f, e, ignore_zipbomb, verify_crc, malloc0_null, garbage, oob_crc_match) ==
    Bind(FileSize(f), LAMBDA file_sz :
         IF ULt(file_sz, e.local_hdr_ofs) THEN ExtractFail(file_sz)
         ELSE IF e.local_hdr_ofs + 30 > file_sz THEN ExtractFail(file_sz)
         ELSE extract_located(f, e, file_sz, FileRead(f, e.local_hdr_ofs, 30),
                              ignore_zipbomb, verify_crc, malloc0_null, garbage,
                              oob_crc_match))

(* ------------------------------------------------------------------ *)
(* Writing an archive                                                   *)
(* ------------------------------------------------------------------ *)

\* the method's codec applied to in_buf: return code and encoded bytes
encode_with(in_buf, method, garbage) ==
    IF method = OTEZIP_METHOD_DEFLATE
    THEN Bind(deflateInit2(Z_DEFAULT_COMPRESSION, -MAX_WBITS, garbage), LAMBDA i :
              IF i.ret # Z_OK THEN [ret |-> -1, out |-> << >>]
              ELSE Bind(deflate([i.e EXCEPT !.in = in_buf,
                                            !.avail_out = compressBound(Len(in_buf))],
                                Z_FINISH), LAMBDA r :
                        IF r.ret # Z_STREAM_END THEN [ret |-> -1, out |-> << >>]
                        ELSE [ret |-> 0, out |-> r.e.out]))
    ELSE IF method = OTEZIP_METHOD_BROTLI
    THEN [ret |-> 0, out |-> simple_compress(in_buf)]
    ELSE [ret |-> -1, out |-> << >>]

\* otezip_compress_data without the comparison of sizes: the codec's output
\* is kept whatever its length
compress_data_unchecked(in_buf, method, malloc0_null, garbage) ==
    IF method = OTEZIP_METHOD_STORE
    THEN IF Len(in_buf) = 0 /\ malloc0_null
         THEN [ret |-> -1, out |-> << >>, method |-> method]
         ELSE [ret |-> 0, out |-> in_buf, method |-> method]
    ELSE Bind(encode_with(in_buf, method, garbage), LAMBDA c :
              IF c.ret # 0 THEN [ret |-> -1, out |-> << >>, method |-> method]
              ELSE [ret |-> 0, out |-> c.out, method |-> method])

\* otezip_compress_data: return code, payload and the method finally used.
\* malloc (0) may return NULL.
RECURSIVE otezip_compress_data(_, _, _, _)
otezip_compress_data(in_buf, method, malloc0_null, garbage) ==
    IF method = OTEZIP_METHOD_STORE
    THEN IF Len(in_buf) = 0 /\ malloc0_null
         THEN [ret |-> -1, out |-> << >>, method |-> method]
         ELSE [ret |-> 0, out |-> in_buf, method |-> method]
    ELSE Bind(encode_with(in_buf, method, garbage), LAMBDA c :
              IF c.ret # 0 THEN [ret |-> -1, out |-> << >>, method |-> method]
              ELSE IF method = OTEZIP_METHOD_DEFLATE /\ Len(c.out) >= Len(in_buf)
              THEN otezip_compress_data(in_buf, OTEZIP_METHOD_STORE, malloc0_null, garbage)
              ELSE IF method = OTEZIP_METHOD_BROTLI /\ Len(in_buf) > 0
                      /\ Len(c.out) >= Len(in_buf)
              THEN otezip_compress_data(in_buf, OTEZIP_METHOD_STORE, malloc0_null, garbage)
              ELSE [ret |-> 0, out |-> c.out, method |-> method])

\* A handle's entry array is a sequence of groups; a group stands for n
\* consecutive entries equal to e except that entry k (from 0) of the group has
\* local_hdr_ofs advanced by k * stride.
RECURSIVE EntryAt(_, _)
EntryAt(entries, i) ==
    LET g == Head(entries)
    IN  IF i < g.n THEN [g.e EXCEPT !.local_hdr_ofs = @ + i * g.stride]
        ELSE EntryAt(Tail(entries), i - g.n)

\* the closed handle (a NULL zip_t *)
NoHandle ==
    [open |-> FALSE, mode |-> 0, entries |-> << >>, n_entries |-> 0, pos |-> 0,
     next_index |-> 0, default_method |-> 0]

ZIP_RDONLY == 0

ZIP_CREATE == 1

ZIP_EXCL == 2

ZIP_TRUNCATE == 8

ZIP_ER_OPEN == 11

ZIP_ER_READ == 5

ZIP_ER_INCONS == 21

ZIP_ER_NOZIP == 19

HasFlag(flags, bit) == (flags \div bit) % 2 = 1

\* 0100644 << 16 as a uint32_t image
ExternalAttr == otezip_rd32(<< 0, 0, 164, 129 >>, 0)

\* the entry that zip_file_add fills in for payload c, at file position pos
added_entry(name, src, c, pos, dt) ==
    [name |-> name, local_hdr_ofs |-> pos,
     comp_size |-> Len(c.out), uncomp_size |-> Len(src),
     method |-> c.method, crc32 |-> otezip_crc32(CrcZero, src),
     file_time |-> dt.dos_time, file_date |-> dt.dos_date,
     external_attr |-> ExternalAttr]

\* added_records returning the entry count after the increment
added_records_late_index(h, f, e, rec, count) ==
    [ret |-> h.n_entries + count,
     za |-> [h EXCEPT !.entries = Append(@, [e |-> e, n |-> count, stride |-> Len(rec)]),
                      !.n_entries = @ + count,
                      !.next_index = h.n_entries + count,
                      !.pos = @ + count * Len(rec)],
     f |-> FileWrite(f, h.pos, << [data |-> rec, n |-> count, stride |-> 0] >>)]

\* the handle and the file after count records rec of entry e were written
added_records(h, f, e, rec, count) ==
    [ret |-> h.n_entries + count - 1,
     za |-> [h EXCEPT !.entries = Append(@, [e |-> e, n |-> count, stride |-> Len(rec)]),
                      !.n_entries = @ + count,
                      !.next_index = h.n_entries + count,
                      !.pos = @ + count * Len(rec)],
     f |-> FileWrite(f, h.pos, << [data |-> rec, n |-> count, stride |-> 0] >>)]

\* zip_file_add called count times in a row with the same name and source
\* (count = 1: one call).  All calls succeed or the first one fails, because
\* nothing they test depends on the entries already present.
zip_file_add(h, f, name, src, count, tm, malloc0_null, garbage) ==
    IF ~h.open \/ h.mode # 1 THEN [ret |-> -1, za |-> h, f |-> f]
    ELSE IF Len(name) > MZIP_MAX_FIELD_LEN THEN [ret |-> -1, za |-> h, f |-> f]
    ELSE Bind(otezip_compress_data(src, IF h.default_method > 0 THEN h.default_method ELSE 0,
                                   malloc0_null, garbage), LAMBDA c :
         IF c.ret # 0 THEN [ret |-> -1, za |-> h, f |-> f]
         ELSE Bind(added_entry(name, src, c, h.pos, otezip_get_dostime(tm)), LAMBDA e :
              added_records(h, f, e,
                            otezip_write_local_header(name, e.method, e.comp_size,
                                                      e.uncomp_size, e.crc32, tm) \o c.out,
                            count)))

\* the central directory headers of a handle, one segment per group
CentralSegs(entries) ==
    [i \in 1..Len(entries) |->
        [data |-> otezip_write_central_header(entries[i].e), n |-> entries[i].n,
         stride |-> IF entries[i].n > 1 THEN entries[i].stride ELSE 0]]

\* otezip_finalize_archive: the file after the central directory and the EOCD
\* were written at the current position.  n_entries is converted to uint32_t
\* at the call and to uint16_t inside otezip_wr16.  (cd_size_acc and cd_offset
\* stay far below 2^32 for the files of this model.)
otezip_finalize_archive(h, f) ==
    LET cd == CentralSegs(h.entries)
        eocd == otezip_write_end_of_central_directory(h.n_entries, FileSize(cd), h.pos)
    IN  FileWrite(f, h.pos, cd \o << Seg(eocd) >>)

\* zip_close: the file afterwards (the handle is gone)
zip_close(h, f) == IF h.mode = 1 THEN otezip_finalize_archive(h, f) ELSE f

zip_get_num_files(h) == IF h.open THEN h.n_entries ELSE 0

\* the libzip error code for a result of otezip_load_central
ErrorCode(load_result) ==
    IF load_result = OTEZIP_ERR_READ THEN ZIP_ER_READ
    ELSE IF load_result = OTEZIP_ERR_INCONS THEN ZIP_ER_INCONS ELSE ZIP_ER_NOZIP

\* the end of zip_open when the central directory is loaded; l is the outcome
\* of otezip_load_central and h the handle as the load left it
zip_open_loaded(d, create, l, h) ==
    IF l.ret # 0
    THEN IF create /\ Len(l.entries) = l.n_entries /\ ~l.dangling
         THEN [za |-> NoHandle, errorp |-> ErrorCode(l.ret),
               disk |-> [d EXCEPT !.f = zip_close(h, d.f)], ub |-> FALSE]
         ELSE [za |-> NoHandle, errorp |-> ErrorCode(l.ret), disk |-> d,
               ub |-> create \/ l.dangling]
    ELSE [za |-> h, errorp |-> 0, disk |-> d, ub |-> FALSE]

\* zip_open on the one path of the model.  d is the file system state
\* [exists, f].  ub tells that the close after a failed load handed a name
\* that was never filled in to the central header writer, or handed a name
\* that the load had freed to the writer or to free.
zip_open(d, flags, malloc0_null) ==
    IF HasFlag(flags, ZIP_CREATE) /\ HasFlag(flags, ZIP_EXCL) /\ HasFlag(flags, ZIP_TRUNCATE)
    THEN [za |-> NoHandle, errorp |-> -1, disk |-> d, ub |-> FALSE]
    ELSE IF HasFlag(flags, ZIP_CREATE) /\ d.exists /\ HasFlag(flags, ZIP_EXCL)
    THEN [za |-> NoHandle, errorp |-> -1, disk |-> d, ub |-> FALSE]
    ELSE IF HasFlag(flags, ZIP_CREATE) /\ ~(d.exists /\ ~HasFlag(flags, ZIP_TRUNCATE))
    THEN [za |-> [NoHandle EXCEPT !.open = TRUE, !.mode = 1], errorp |-> 0,
          disk |-> [exists |-> TRUE, f |-> << >>], ub |-> FALSE]
    ELSE IF ~d.exists THEN [za |-> NoHandle, errorp |-> ZIP_ER_OPEN, disk |-> d, ub |-> FALSE]
    ELSE Bind(otezip_load_central(d.f, malloc0_null), LAMBDA l :
         zip_open_loaded(d, HasFlag(flags, ZIP_CREATE), l,
                         [open |-> TRUE, mode |-> IF HasFlag(flags, ZIP_CREATE) THEN 1 ELSE 0,
                          entries |-> l.entries, n_entries |-> l.n_entries, pos |-> l.pos,
                          next_index |-> IF HasFlag(flags, ZIP_CREATE) THEN l.n_entries ELSE 0,
                          default_method |-> 0]))

\* zip_fopen_index: the extraction outcome, or a failure when index is out of range
zip_fopen_index(h, f, index, ignore_zipbomb, verify_crc, malloc0_null, garbage, oob_crc_match) ==
    IF ~h.open \/ index >= h.n_entries
    THEN [ret |-> -1, data |-> << >>, zeros |-> 0, size |-> 0, decoded |-> 0,
          alloc_uncomp |-> FALSE, guard |-> FALSE, ub |-> FALSE, pos |-> h.pos]
    ELSE otezip_extract_entry(f, EntryAt(h.entries, index), ignore_zipbomb, verify_crc,
                              malloc0_null, garbage, oob_crc_match)

(* ------------------------------------------------------------------ *)
(* Bounds and input sets                                                *)
(* ------------------------------------------------------------------ *)

\* longest byte sequence handed to the codec
MaxLen == 6

\* most inflate calls in one decoding session
MaxCalls == 8

\* most zip_file_add groups in one handle
MaxEntries == 2

\* most writing sessions (zip_open with ZIP_CREATE) on one archive
MaxOpens == 2

\* length of a run of identical zip_file_add calls
BulkCount == 65536

\* a declared size above the expansion slack
BombSize == 2000000

\* a local header offset and a size excess that leave every file of the model
FarAway == 1000

RECURSIVE SeqsUpTo(_, _)
SeqsUpTo(S, n) ==
    IF n = 0 THEN {<< >>}
    ELSE LET P == SeqsUpTo(S, n - 1)
         IN  P \cup {Append(q, x) : q \in {p \in P : Len(p) = n - 1}, x \in S}

\* an 8-bit and a 9-bit literal of the fixed code
CodecBytes == {97, 144}

CodecInputs == SeqsUpTo(CodecBytes, MaxLen)

Levels == {Z_DEFAULT_COMPRESSION, 0, 1, 6, 9}

\* what a cell that was never written may hold
GarbageBytes == {0, 97}

Files ==
    {[name |-> << 97 >>, src |-> << >>],
     [name |-> << 97 >>, src |-> << 97 >>],
     [name |-> << 98, 99 >>, src |-> << 120, 97, 98, 99, 97, 98, 99, 97, 98, 99 >>]}

Methods == {OTEZIP_METHOD_STORE, OTEZIP_METHOD_DEFLATE, OTEZIP_METHOD_BROTLI,
            OTEZIP_METHOD_LZ4}

OpenFlags == {ZIP_RDONLY, ZIP_CREATE, ZIP_CREATE + ZIP_TRUNCATE, ZIP_CREATE + ZIP_EXCL}

\* the local time of the run
Now == [tm_year |-> 126, tm_mon |-> 10, tm_mday |-> 2, tm_hour |-> 12, tm_min |-> 30,
        tm_sec |-> 15]

\* (otezip_ignore_zipbomb, otezip_verify_crc) as the application may set them,
\* and whether malloc (0) and calloc (0, ..) return NULL on the platform
GlobalSettings == {<< 0, 0, FALSE >>, << 0, 1, FALSE >>, << 1, 0, FALSE >>, << 0, 0, TRUE >>}

\* the local record, central header and end record of a one-entry archive
ForeignLayout(e, payload) ==
    Bind(otezip_write_local_header(e.name, e.method, e.comp_size, e.uncomp_size, e.crc32,
                                   << >>) \o payload, LAMBDA rec :
         Bind(otezip_write_central_header(e), LAMBDA cdh :
              << Seg(rec), Seg(cdh),
                 Seg(otezip_write_end_of_central_directory(1, Len(cdh), Len(rec))) >>))

\* an archive of one entry named "a" that another program wrote: the local
\* header, the payload, one central header carrying the given fields, the EOCD
ForeignFile(method, payload, comp_size, uncomp_size, local_hdr_ofs) ==
    ForeignLayout([name |-> << 97 >>, local_hdr_ofs |-> local_hdr_ofs,
                   comp_size |-> comp_size, uncomp_size |-> uncomp_size, method |-> method,
                   crc32 |-> otezip_crc32(CrcZero, << 97 >>),
                   file_time |-> 0, file_date |-> 33, external_attr |-> 0], payload)

ForeignPayloads ==
    {<< >>, << 97, 98 >>, << 3, 0 >>, FixedLiteralStream(<< 97 >>), simple_compress(<< 97 >>)}

ForeignSizes == {0, 1, 2, BombSize}

\* output slices offered to a resumed decoder
MaxSlice == 3

Slices == 1..MaxSlice

(* ------------------------------------------------------------------ *)
(* State                                                                *)
(*                                                                      *)
(* Codec sessions: plain is the byte sequence a stream stands for,      *)
(* kind says where the stream came from ("deflate": the encoder;        *)
(* "fixed", "stored", "dynamic": a conforming stream of that block      *)
(* type), level the level given to deflateInit2, enc the outcome of the *)
(* deflate session, stream the bytes handed to the decoder, strm the    *)
(* inflate session, flush its flush argument, inf_ret the last return   *)
(* of inflate and calls the number of inflate calls made.               *)
(*                                                                      *)
(* Archives: disk is the one path of the model ([exists, f]), za the    *)
(* handle (NoHandle when none is open), errorp what the last zip_open   *)
(* stored through errorp, zf the outcome of the last zip_fopen_index    *)
(* on the open handle, otezip_ignore_zipbomb and otezip_verify_crc the  *)
(* two globals, platform what the C library does where the standard     *)
(* leaves it open.  hist is a history variable, what the application    *)
(* did to the path: kind (who wrote the archive), flags (of the         *)
(* zip_open that created it), log (the successful adds), sessions (the  *)
(* writing sessions), last (the flags of the latest zip_open, -1 after  *)
(* a close), closed, close_n, close_pos and close_entries (the handle   *)
(* at the latest write-mode close), base, base_f, base_adds and         *)
(* valid_base (the handle and the file that an appending session        *)
(* found), pure (no failed open wrote to the file), ub.                 *)
(* ------------------------------------------------------------------ *)

VARIABLES plain, kind, level, enc, stream, strm, flush, inf_ret, calls,
          disk, za, errorp, zf, otezip_ignore_zipbomb, otezip_verify_crc, platform, hist

codec_vars == << plain, kind, level, enc, stream, strm, flush, inf_ret, calls >>

archive_vars ==
    << disk, za, errorp, zf, otezip_ignore_zipbomb, otezip_verify_crc, platform, hist >>

vars == << codec_vars, archive_vars >>

NoSession == [open |-> FALSE]

NoFile == [valid |-> FALSE]

NoHistory ==
    [kind |-> "none", flags |-> -1, log |-> << >>, sessions |-> 0, appended |-> FALSE,
     closed |-> FALSE,
     pure |-> TRUE, last |-> -1, base |-> NoHandle, base_f |-> << >>,
     base_adds |-> 0, valid_base |-> FALSE, close_n |-> 0, close_pos |-> 0,
     close_entries |-> << >>, ub |-> FALSE]

CodecIdle ==
    /\ plain = << >>
    /\ kind = "none"
    /\ level = 0
    /\ enc = [ret |-> Z_OK, ub |-> FALSE]
    /\ stream = << >>
    /\ strm = NoSession
    /\ flush = Z_NO_FLUSH
    /\ inf_ret = Z_OK
    /\ calls = 0

ArchiveIdle ==
    /\ disk = [exists |-> FALSE, f |-> << >>]
    /\ za = NoHandle
    /\ errorp = 0
    /\ zf = NoFile
    /\ hist = NoHistory

(* ------------------------------------------------------------------ *)
(* Codec sessions                                                       *)
(* ------------------------------------------------------------------ *)

\* a raw deflate session: deflateInit2 (level, -15), then one deflate call
\* with Z_FINISH on all of X and compressBound (|X|) bytes of output space
DeflateSession(X, lv, garbage) ==
    /\ kind = "none"
    /\ \E i \in {deflateInit2(lv, -MAX_WBITS, garbage)} :
          /\ i.ret = Z_OK
          /\ \E r \in {deflate([i.e EXCEPT !.in = X,
                                           !.avail_out = compressBound(Len(X))],
                                 Z_FINISH)} :
                /\ enc' = [ret |-> r.ret, ub |-> r.e.ub]
                /\ stream' = r.e.out
    /\ plain' = X
    /\ kind' = "deflate"
    /\ level' = lv
    /\ UNCHANGED << strm, flush, inf_ret, calls, archive_vars >>

\* a conforming one-block stream from another encoder
ConformingStream(k, L) ==
    /\ kind = "none"
    /\ plain' = L
    /\ kind' = k
    /\ stream' = IF k = "fixed" THEN FixedLiteralStream(L)
                 ELSE IF k = "stored" THEN StoredStream(L) ELSE DynamicStream
    /\ UNCHANGED << level, enc, strm, flush, inf_ret, calls, archive_vars >>

\* inflateInit2 (-15) with the whole stream as input; an encoder's output is
\* decoded in one call with Z_FINISH, a conforming stream also in slices
InflateInit(fl, garbage) ==
    /\ kind # "none"
    /\ kind = "deflate" => fl = Z_FINISH
    /\ ~strm.open
    /\ strm' = [inflateInit2(-MAX_WBITS, garbage) EXCEPT !.in = stream] @@ [open |-> TRUE]
    /\ flush' = fl
    /\ inf_ret' = Z_OK
    /\ calls' = 0
    /\ UNCHANGED << plain, kind, level, enc, stream, archive_vars >>

\* one inflate call offering space bytes of output
InflateCall(space) ==
    /\ strm.open
    /\ inf_ret = Z_OK
    /\ calls < MaxCalls
    /\ IF flush = Z_FINISH
       THEN calls = 0 /\ space \in {Len(plain), Len(plain) + 1}
       ELSE space >= 1 /\ space \in Slices \cup {Len(plain)}
    /\ \E r \in {inflate([strm EXCEPT !.avail_out = space], flush)} :
          /\ strm' = r.d
          /\ inf_ret' = r.ret
    /\ calls' = calls + 1
    /\ UNCHANGED << plain, kind, level, enc, stream, flush, archive_vars >>

CodecInit ==
    /\ CodecIdle
    /\ ArchiveIdle
    /\ otezip_ignore_zipbomb = 0
    /\ otezip_verify_crc = 0
    /\ platform = [malloc0_null |-> FALSE]

CodecNext ==
    \/ \E X \in CodecInputs, lv \in Levels, g \in GarbageBytes : DeflateSession(X, lv, g)
    \/ \E k \in {"fixed", "stored"}, L \in CodecInputs : ConformingStream(k, L)
    \/ ConformingStream("dynamic", DynamicPlain)
    \/ \E fl \in {Z_FINISH, Z_NO_FLUSH}, g \in GarbageBytes : InflateInit(fl, g)
    \/ \E space \in 0..(MaxLen + 1) \cup {Len(DynamicPlain), Len(DynamicPlain) + 1} :
          InflateCall(space)

CodecSpec == CodecInit /\ [][CodecNext]_vars

(* ------------------------------------------------------------------ *)
(* Archive sessions                                                     *)
(* ------------------------------------------------------------------ *)

\* the number of zip_file_add calls that a log records
RECURSIVE TotalAdds(_)
TotalAdds(log) == IF log = << >> THEN 0 ELSE Head(log).n + TotalAdds(Tail(log))

\* the log item of the add that returned index i
RECURSIVE LogAt(_, _)
LogAt(log, i) ==
    IF i < Head(log).n THEN Head(log) ELSE LogAt(Tail(log), i - Head(log).n)

\* hist after zip_open (flags) returned r
OpenHistory(flags, r) ==
    IF r.za.open /\ r.za.mode = 1 /\ ~(disk.exists /\ ~HasFlag(flags, ZIP_TRUNCATE))
    THEN \* a new or truncated archive
         [NoHistory EXCEPT !.kind = "library", !.flags = flags, !.last = flags,
                           !.sessions = 1]
    ELSE IF r.za.open /\ r.za.mode = 1
    THEN \* an existing archive opened for appending
         [hist EXCEPT !.last = flags, !.closed = FALSE,
                      !.sessions = @ + 1, !.appended = TRUE,
                      !.base = r.za, !.base_f = disk.f, !.base_adds = TotalAdds(hist.log),
                      !.valid_base = /\ hist.kind = "library" /\ hist.pure /\ hist.closed
                                     /\ r.za.n_entries = TotalAdds(hist.log)]
    ELSE [hist EXCEPT !.last = flags,
                      !.sessions = IF HasFlag(flags, ZIP_CREATE) THEN @ + 1 ELSE @,
                      !.closed = @ /\ r.disk = disk /\ ~r.ub,
                      !.pure = @ /\ r.disk = disk /\ ~r.ub,
                      !.ub = @ \/ r.ub]

\* zip_open of the path.  An archive takes at most MaxOpens writing sessions,
\* and an archive of another program is read or replaced, not extended.
ZipOpen(flags) ==
    /\ ~za.open
    /\ HasFlag(flags, ZIP_CREATE) /\ (~HasFlag(flags, ZIP_TRUNCATE) \/ HasFlag(flags, ZIP_EXCL))
          => hist.sessions < MaxOpens /\ hist.kind # "foreign"
    /\ \E r \in {zip_open(disk, flags, platform.malloc0_null)} :
          /\ za' = r.za
          /\ errorp' = r.errorp
          /\ disk' = r.disk
          /\ hist' = OpenHistory(flags, r)
    /\ zf' = NoFile
    /\ UNCHANGED << otezip_ignore_zipbomb, otezip_verify_crc, platform, codec_vars >>

\* the application selects the method of the entries it is going to add, as
\* main.c does right after zip_open when a method other than STORE is asked for
SetDefaultMethod(m) ==
    /\ za.open
    /\ za.mode = 1
    /\ m # 0
    /\ za.default_method = 0
    /\ TotalAdds(hist.log) = hist.base_adds
    /\ za' = [za EXCEPT !.default_method = m]
    /\ UNCHANGED << disk, errorp, zf, otezip_ignore_zipbomb, otezip_verify_crc, platform,
                    hist, codec_vars >>

\* count calls of zip_file_add in a row, each with a fresh source of bytes src
FileAdds(name, src, count, garbage) ==
    /\ za.open
    /\ Len(za.entries) < MaxEntries
    /\ \E r \in {zip_file_add(za, disk.f, name, src, count, Now, platform.malloc0_null,
                              garbage)} :
          /\ za' = r.za
          /\ disk' = [disk EXCEPT !.f = r.f]
          /\ hist' = IF r.ret < 0 THEN hist
                     ELSE [hist EXCEPT !.log = Append(@,
                              [name |-> name, src |-> src, n |-> count,
                               method |-> za.default_method,
                               e |-> r.za.entries[Len(r.za.entries)].e])]
    /\ UNCHANGED << errorp, zf, otezip_ignore_zipbomb, otezip_verify_crc, platform,
                    codec_vars >>

\* one zip_file_add call
ZipFileAdd(name, src, garbage) == FileAdds(name, src, 1, garbage)

\* BulkCount zip_file_add calls of a one-byte file
ZipFileAddRun ==
    /\ za.n_entries < BulkCount
    /\ FileAdds(<< 97 >>, << 97 >>, BulkCount, 0)

\* zip_fopen_index on a handle opened for reading, as main.c calls it; the
\* extraction moves the position of the handle's stream
ZipFopenIndex(index, garbage, oob_crc_match) ==
    /\ za.open
    /\ za.mode = 0
    /\ \E r \in {zip_fopen_index(za, disk.f, index, otezip_ignore_zipbomb, otezip_verify_crc,
                                 platform.malloc0_null, garbage, oob_crc_match)} :
          /\ zf' = [valid |-> TRUE, index |-> index,
                    found |-> index < za.n_entries,
                    e |-> IF index < za.n_entries THEN EntryAt(za.entries, index)
                          ELSE << >>,
                    ret |-> r.ret, data |-> r.data, zeros |-> r.zeros, size |-> r.size,
                    decoded |-> r.decoded, alloc_uncomp |-> r.alloc_uncomp,
                    guard |-> r.guard, ub |-> r.ub]
          /\ za' = [za EXCEPT !.pos = r.pos]
    /\ UNCHANGED << disk, errorp, hist, otezip_ignore_zipbomb, otezip_verify_crc, platform,
                    codec_vars >>

\* zip_close
ZipClose ==
    /\ za.open
    /\ disk' = [disk EXCEPT !.f = zip_close(za, disk.f)]
    /\ za' = NoHandle
    /\ hist' = IF za.mode = 1
               THEN [hist EXCEPT !.last = -1, !.closed = TRUE, !.close_n = za.n_entries,
                                 !.close_pos = za.pos, !.close_entries = za.entries]
               ELSE [hist EXCEPT !.last = -1]
    /\ zf' = NoFile
    /\ UNCHANGED << errorp, otezip_ignore_zipbomb, otezip_verify_crc, platform,
                    codec_vars >>

\* another program leaves a one-entry archive at the path
ForeignArchive(method, payload, comp_size, uncomp_size, local_hdr_ofs) ==
    /\ ~disk.exists
    /\ hist.kind = "none"
    /\ disk' = [exists |-> TRUE,
                f |-> ForeignFile(method, payload, comp_size, uncomp_size, local_hdr_ofs)]
    /\ hist' = [hist EXCEPT !.kind = "foreign"]
    /\ UNCHANGED << za, errorp, zf, otezip_ignore_zipbomb, otezip_verify_crc, platform,
                    codec_vars >>

Init ==
    /\ CodecIdle
    /\ ArchiveIdle
    /\ \E g \in GlobalSettings :
          /\ otezip_ignore_zipbomb = g[1]
          /\ otezip_verify_crc = g[2]
          /\ platform = [malloc0_null |-> g[3]]

Next ==
    \/ \E flags \in OpenFlags : ZipOpen(flags)
    \/ \E m \in Methods : SetDefaultMethod(m)
    \/ \E file \in Files, g \in GarbageBytes : ZipFileAdd(file.name, file.src, g)
    \/ ZipFileAddRun
    \/ \E index \in 0..MaxEntries, g \in GarbageBytes, oob \in BOOLEAN :
          ZipFopenIndex(index, g, oob)
    \/ ZipClose
    \/ \E method \in {OTEZIP_METHOD_STORE, OTEZIP_METHOD_DEFLATE, OTEZIP_METHOD_BROTLI},
          payload \in ForeignPayloads, uncomp_size \in ForeignSizes,
          far \in {0, FarAway} :
          \E comp_size \in {0, Len(payload), Len(payload) + far} :
             ForeignArchive(method, payload, comp_size, uncomp_size, far)

Spec == Init /\ [][Next]_vars

(* ------------------------------------------------------------------ *)
(* Properties of the codec sessions                                     *)
(* ------------------------------------------------------------------ *)

\* the session decodes in one inflate call with Z_FINISH
OneShot == strm.open /\ flush = Z_FINISH /\ calls = 1

\* C2: a raw deflate session at a level 1..9 or at the default level, on
\* compressBound (|X|) bytes of space, returns end-of-stream, and inflating
\* its output with Z_FINISH and at least |X| bytes of space returns
\* end-of-stream having produced exactly X
C2_DeflateRoundTrip ==
    kind = "deflate" /\ level # Z_NO_COMPRESSION =>
        /\ enc.ret = Z_STREAM_END
        /\ OneShot => inf_ret = Z_STREAM_END /\ strm.out = plain

\* C2: the one-byte input "a" at level 6 comes back as another byte
C2_LostByte ==
    /\ kind = "deflate" /\ level = 6 /\ plain = << 97 >>
    /\ enc.ret = Z_STREAM_END /\ ~enc.ub
    /\ OneShot /\ ~strm.ub
    /\ inf_ret = Z_STREAM_END /\ strm.out # plain

\* C3: inflating one final fixed-Huffman block that holds only the literals
\* of L and the end-of-block symbol, with Z_FINISH and at least |L| bytes of
\* space, returns end-of-stream having produced exactly L
C3_FixedLiteralBlock ==
    kind = "fixed" /\ OneShot => inf_ret = Z_STREAM_END /\ strm.out = plain

\* C3: a block of nine-bit literals that is refused although the space suffices
C3_RefusedBlock ==
    /\ kind = "fixed" /\ OneShot /\ ~strm.ub
    /\ \A i \in 1..Len(plain) : plain[i] = 144
    /\ inf_ret # Z_STREAM_END

\* the same stream decoded by one inflate call with sufficient output space
OneCall ==
    inflate([inflateInit2(-MAX_WBITS, strm.garbage) EXCEPT
                !.in = stream,
                !.avail_out = IF plain = << >> THEN 1 ELSE Len(plain)], Z_NO_FLUSH)

IsPrefix(s, t) == Len(s) <= Len(t) /\ s = SubSeq(t, 1, Len(s))

\* C5: decoding a conforming stream by repeated inflate calls, each offering
\* a slice of one byte or more and fresh space after every Z_OK, yields the
\* output and the final return of decoding it in one call with enough space
C5_Resumption ==
    kind \in {"fixed", "stored", "dynamic"} /\ strm.open /\ flush = Z_NO_FLUSH =>
        /\ IsPrefix(strm.out, OneCall.d.out)
        /\ inf_ret # Z_OK => inf_ret = OneCall.ret /\ strm.out = OneCall.d.out

\* C5: a stored block offered less space than its LEN ends the session with
\* Z_BUF_ERROR, while one call with enough space ends the stream
C5_StoredSlice ==
    /\ kind = "stored" /\ strm.open /\ flush = Z_NO_FLUSH /\ ~strm.ub
    /\ inf_ret = Z_BUF_ERROR
    /\ OneCall.ret = Z_STREAM_END /\ OneCall.d.out = plain

(* ------------------------------------------------------------------ *)
(* Properties of the archive sessions                                   *)
(* ------------------------------------------------------------------ *)

\* the indices at which an archive of n entries is looked at: all of them
\* when they are few, else the first two and the last
SampleIndices(n) == IF n <= 3 THEN 0..(n - 1) ELSE {0, 1, n - 1}

\* the last 22 bytes of the archive
LastRecord == FileRead(disk.f, FileSize(disk.f) - 22, 22)

\* the archive was written by one session opened with create and truncate
\* whose adds all ran with the default method STORE, it was closed, and the
\* latest call was a read-only zip_open
StoreSession ==
    /\ hist.kind = "library" /\ hist.flags = ZIP_CREATE + ZIP_TRUNCATE
    /\ hist.sessions = 1 /\ hist.closed /\ hist.pure
    /\ \A i \in 1..Len(hist.log) : hist.log[i].method = OTEZIP_METHOD_STORE
    /\ hist.last = ZIP_RDONLY

\* the entry at index i is the one that the add of index i described
ListedAsAdded(i) ==
    Bind(EntryAt(za.entries, i), LAMBDA e :
    Bind(LogAt(hist.log, i), LAMBDA it :
         /\ e.name = it.name
         /\ e.uncomp_size = Len(it.src)
         /\ e.crc32 = otezip_crc32(CrcZero, it.src)))

\* C1: after a create+truncate session of successful STORE adds, zip_close
\* and a read-only zip_open, zip_get_num_files is the number of adds, entry i
\* has the name, the source length and the CRC-32 of the i-th add, and
\* zip_fopen_index (i) delivers exactly the i-th source bytes
C1_StoreRoundTrip ==
    StoreSession =>
        /\ zip_get_num_files(za) = TotalAdds(hist.log)
        /\ \A i \in SampleIndices(TotalAdds(hist.log)) : ListedAsAdded(i)
        /\ zf.valid /\ zf.index < TotalAdds(hist.log) =>
              /\ zf.ret = 0 /\ ~zf.ub
              /\ zf.size = Len(LogAt(hist.log, zf.index).src)
              /\ zf.data = LogAt(hist.log, zf.index).src /\ zf.zeros = 0

\* C1: BulkCount adds were accepted and closed, and the read-only handle
\* lists no entry
C1_LostEntries ==
    /\ StoreSession /\ za.open
    /\ TotalAdds(hist.log) = BulkCount
    /\ zip_get_num_files(za) = 0

\* C4: with the guard enabled, extraction of an entry whose declared
\* uncompressed size exceeds comp_size * ratio + slack fails, whatever its
\* method and compressed size, before a buffer of the declared size is
\* allocated; with the guard disabled the guard does not reject the entry
C4_ExpansionGuard ==
    zf.valid /\ zf.found /\ ~zf.ub /\ ExpansionExceeded(zf.e.comp_size, zf.e.uncomp_size) =>
        /\ otezip_ignore_zipbomb = 0 => zf.ret = -1 /\ ~zf.alloc_uncomp
        /\ otezip_ignore_zipbomb # 0 => ~zf.guard

\* C4: a DEFLATE entry of compressed size 0 that declares BombSize bytes gets
\* its buffer of BombSize bytes although the guard is enabled
C4_LateGuard ==
    /\ zf.valid /\ zf.found /\ ~zf.ub /\ otezip_ignore_zipbomb = 0
    /\ zf.e.method = OTEZIP_METHOD_DEFLATE
    /\ zf.e.comp_size = 0 /\ zf.e.uncomp_size = BombSize
    /\ ~zf.guard /\ zf.alloc_uncomp

\* C7: whenever an extraction succeeds, the number of bytes the codec
\* decoded (for STORE the compressed size) is the declared uncompressed size
C7_DeliveredLength ==
    zf.valid /\ zf.found /\ ~zf.ub /\ zf.ret = 0 => zf.decoded = zf.e.uncomp_size

\* C7: a STORE entry of two bytes that declares one byte is delivered
C7_LongStore ==
    /\ zf.valid /\ zf.found /\ ~zf.ub /\ zf.ret = 0
    /\ zf.e.method = OTEZIP_METHOD_STORE
    /\ zf.e.comp_size = 2 /\ zf.e.uncomp_size = 1 /\ zf.size = 1

\* the payload that the archive file holds for a logged add
WrittenPayload(it) ==
    FileRead(disk.f, it.e.local_hdr_ofs + 30 + Len(it.name), it.e.comp_size)

\* the entry of a logged add is a STORE entry of the raw source bytes
WrittenRaw(it) ==
    /\ it.e.method = OTEZIP_METHOD_STORE
    /\ it.e.comp_size = Len(it.src) /\ it.e.uncomp_size = Len(it.src)
    /\ it.e.crc32 = otezip_crc32(CrcZero, it.src)
    /\ hist.pure => WrittenPayload(it) = it.src

\* the method's codec does not make src strictly smaller
NotSmaller(src, method) ==
    \E g \in GarbageBytes :
       Bind(encode_with(src, method, g), LAMBDA c : c.ret = 0 /\ Len(c.out) >= Len(src))

\* a Brotli entry of an empty source keeps its frame
KeepsFrame(src, method) == method = OTEZIP_METHOD_BROTLI /\ src = << >>

AppendSession == hist.valid_base /\ hist.closed /\ hist.pure

\* entry i of the handle has the name, sizes and CRC it had before the append
Preserved(i) ==
    Bind(EntryAt(za.entries, i), LAMBDA e :
    Bind(EntryAt(hist.base.entries, i), LAMBDA b :
         /\ e.name = b.name /\ e.crc32 = b.crc32
         /\ e.comp_size = b.comp_size /\ e.uncomp_size = b.uncomp_size))

\* the extraction in zf is one that the archive gave before the append
ExtractsAsBefore ==
    \E g \in GarbageBytes, oob \in BOOLEAN :
       Bind(zip_fopen_index(hist.base, hist.base_f, zf.index, otezip_ignore_zipbomb,
                            otezip_verify_crc, platform.malloc0_null, g, oob), LAMBDA r :
            /\ zf.ret = r.ret /\ zf.data = r.data
            /\ zf.zeros = r.zeros /\ zf.size = r.size)

\* C8: appending k entries to a valid archive of n entries and closing gives
\* an archive whose EOCD total-entry count is n + k and which a read-only
\* open lists as n + k entries: the n old ones first, with unchanged name,
\* sizes, CRC and extraction, then the k new ones in insertion order
C8_AppendPreserves ==
    AppendSession =>
        /\ otezip_rd16(LastRecord, 10) = TotalAdds(hist.log)
        /\ hist.last = ZIP_RDONLY =>
              /\ zip_get_num_files(za) = TotalAdds(hist.log)
              /\ \A i \in SampleIndices(hist.base.n_entries) : Preserved(i)
              /\ \A i \in {hist.base.n_entries, TotalAdds(hist.log) - 1} :
                    i >= hist.base.n_entries /\ i < TotalAdds(hist.log)
                       => ListedAsAdded(i)
              /\ zf.valid /\ zf.index < hist.base.n_entries => ExtractsAsBefore

\* C8: an archive of one entry after BulkCount appended entries says one entry
C8_LostAppends ==
    /\ AppendSession
    /\ hist.base.n_entries = 1 /\ TotalAdds(hist.log) = 1 + BulkCount
    /\ otezip_rd16(LastRecord, 10) = 1
    /\ hist.last = ZIP_RDONLY /\ za.open /\ zip_get_num_files(za) = 1

\* the offset, inside a central directory of these entries, of header i
RECURSIVE CentralOffset(_, _)
CentralOffset(entries, i) ==
    Bind(Len(otezip_write_central_header(Head(entries).e)), LAMBDA len :
         IF i < Head(entries).n THEN i * len
         ELSE Head(entries).n * len + CentralOffset(Tail(entries), i - Head(entries).n))

\* the file holds the central directory header of entry i of the closed
\* handle at its place behind close_pos
HeaderInPlace(i) ==
    Bind(otezip_write_central_header(EntryAt(hist.close_entries, i)), LAMBDA hdr :
         FileRead(disk.f, hist.close_pos + CentralOffset(hist.close_entries, i), Len(hdr))
            = hdr)

\* C9: after zip_close on a write-mode handle of n entries the archive ends
\* with the n central directory headers in insertion order and one EOCD
\* whose two 16-bit entry counts are n, whose cd-offset is the offset of the
\* first header and whose cd-size is the length of the n headers
C9_ConsistentDirectory ==
    hist.closed /\ hist.pure =>
        Bind(FileSize(CentralSegs(hist.close_entries)), LAMBDA cd_size :
             /\ FileSize(disk.f) = hist.close_pos + cd_size + 22
             /\ Bytes(LastRecord, 0, 4) = MZIP_SIG_EOCD
             /\ otezip_rd16(LastRecord, 8) = hist.close_n
             /\ otezip_rd16(LastRecord, 10) = hist.close_n
             /\ otezip_rd32(LastRecord, 12) = cd_size
             /\ otezip_rd32(LastRecord, 16) = hist.close_pos
             /\ \A i \in SampleIndices(hist.close_n) : HeaderInPlace(i))

\* C9: a handle of BulkCount entries was closed, and the EOCD counts are 0
C9_TruncatedCount ==
    /\ hist.closed /\ hist.pure /\ hist.close_n = BulkCount
    /\ Bytes(LastRecord, 0, 4) = MZIP_SIG_EOCD
    /\ otezip_rd16(LastRecord, 8) = 0 /\ otezip_rd16(LastRecord, 10) = 0
    /\ otezip_rd32(LastRecord, 16) = hist.close_pos

\* C10: every entry of a handle that zip_open loaded lies inside the
\* archive: local header offset + 30 + name length + extra length +
\* compressed size <= archive length (the extra length at its least, 0)
C10_DirectorySanity ==
    za.open /\ za.mode = 0 =>
        \A i \in SampleIndices(za.n_entries) :
           Bind(EntryAt(za.entries, i), LAMBDA e :
                e.local_hdr_ofs + 30 + Len(e.name) + e.comp_size <= FileSize(disk.f))

\* C10: zip_open loaded an archive whose only entry has its local header
\* beyond the end of the file
C10_LoadedFarEntry ==
    /\ za.open /\ za.mode = 0 /\ errorp = 0 /\ za.n_entries = 1
    /\ EntryAt(za.entries, 0).local_hdr_ofs = FarAway
    /\ FarAway > FileSize(disk.f)

\* the extraction that the last zip_fopen_index made, under a given setting of
\* otezip_verify_crc (an extraction that read no byte outside its buffers does
\* not depend on the content of such bytes)
ExtractedUnder(verify_crc) ==
    otezip_extract_entry(disk.f, zf.e, otezip_ignore_zipbomb, verify_crc,
                         platform.malloc0_null, 0, FALSE)

\* the buffer of *out_sz bytes that an extraction delivers
Delivered(r) == r.data \o Rep(0, r.zeros)

ScenarioA == [name |-> << 97 >>, src |-> Rep(65, 1000)]

\* entry "b" of the scenario: "The quick brown fox jumps over the lazy dog."
ScenarioB ==
    [name |-> << 98 >>,
     src |-> << 84, 104, 101, 32, 113, 117, 105, 99, 107, 32, 98, 114, 111, 119, 110, 32,
                102, 111, 120, 32, 106, 117, 109, 112, 115, 32, 111, 118, 101, 114, 32,
                116, 104, 101, 32, 108, 97, 122, 121, 32, 100, 111, 103, 46 >>]

\* what the window that deflateInit2 allocates with malloc may hold
ScenarioGarbage == {0, 65}

ScenarioNext ==
    \/ \E flags \in OpenFlags : ZipOpen(flags)
    \/ SetDefaultMethod(OTEZIP_METHOD_DEFLATE)
    \/ \E file \in {ScenarioA, ScenarioB}, g \in ScenarioGarbage :
          ZipFileAdd(file.name, file.src, g)
    \/ ZipClose

ScenarioSpec == Init /\ [][ScenarioNext]_vars

\* the archive was written by one session that added "a" and then "b" with
\* the method DEFLATE selected, it was closed, and a read-only zip_open has
\* loaded its central directory
ScenarioS2 ==
    /\ hist.kind = "library" /\ hist.sessions = 1 /\ hist.closed /\ hist.pure
    /\ hist.last = ZIP_RDONLY /\ za.open
    /\ Len(hist.log) = 2
    /\ \A i \in 1..2 : hist.log[i].method = OTEZIP_METHOD_DEFLATE /\ hist.log[i].n = 1
    /\ hist.log[1].name = ScenarioA.name /\ hist.log[1].src = ScenarioA.src
    /\ hist.log[2].name = ScenarioB.name /\ hist.log[2].src = ScenarioB.src

\* C12: in scenario S2 the central directory records the method DEFLATE for
\* both entries, and a compressed size below 1000 for entry "a"
C12_ScenarioS2 ==
    ScenarioS2 =>
        /\ za.n_entries = 2
        /\ EntryAt(za.entries, 0).method = OTEZIP_METHOD_DEFLATE
        /\ EntryAt(za.entries, 1).method = OTEZIP_METHOD_DEFLATE
        /\ EntryAt(za.entries, 0).comp_size < Len(ScenarioA.src)

\* C12: in scenario S2 the central directory records both entries as STORE, with
\* their full lengths as compressed sizes
C12_BothStored ==
    /\ ScenarioS2 /\ za.n_entries = 2
    /\ EntryAt(za.entries, 0).method = OTEZIP_METHOD_STORE
    /\ EntryAt(za.entries, 0).comp_size = Len(ScenarioA.src)
    /\ EntryAt(za.entries, 1).method = OTEZIP_METHOD_STORE
    /\ EntryAt(za.entries, 1).comp_size = Len(ScenarioB.src)

(* ------------------------------------------------------------------ *)
(* Further properties of the codec sessions                             *)
(* ------------------------------------------------------------------ *)

\* C13: a deflate session given no input byte and Z_FINISH returns
\* end-of-stream having emitted at least one byte, and inflate decodes what
\* it emitted to zero bytes and end-of-stream
C13_EmptyInput ==
    kind = "deflate" /\ plain = << >> =>
        /\ enc.ret = Z_STREAM_END
        /\ stream # << >>
        /\ OneShot => inf_ret = Z_STREAM_END /\ strm.out = << >>

\* C13: the session on no input returned end-of-stream without emitting a
\* byte, and inflate does not reach the end of a stream
C13_NothingEmitted ==
    /\ kind = "deflate" /\ plain = << >>
    /\ enc.ret = Z_STREAM_END /\ stream = << >>
    /\ OneShot /\ inf_ret # Z_STREAM_END

(* ------------------------------------------------------------------ *)
(* Entry indices                                                        *)
(* ------------------------------------------------------------------ *)

\* zip_get_name for an index below n_entries
NameAt(h, index) == EntryAt(h.entries, index).name

\* the entries of handle h are entries of handle h2, at the same indices
KeepsEntries(h, h2) ==
    /\ h2.n_entries >= h.n_entries
    /\ Len(h2.entries) >= Len(h.entries)
    /\ \A i \in 1..Len(h.entries) :
          /\ h2.entries[i].n = h.entries[i].n
          /\ h2.entries[i].e.name = h.entries[i].e.name

\* what one zip_file_add call on the present handle returns and leaves
AddOutcomes ==
    {[file |-> file,
      r |-> zip_file_add(za, disk.f, file.name, file.src, 1, Now, platform.malloc0_null, g)] :
        file \in Files, g \in GarbageBytes}

\* C14: on a write handle a successful zip_file_add returns the number of
\* entries before the call and adds one entry of the given name after the
\* existing ones, a failed zip_file_add leaves the handle and the file as
\* they were, and no step of an open handle changes the name at an index
C14_StableIndices ==
    /\ [](za.open /\ za.mode = 1 =>
             \A o \in AddOutcomes :
                IF o.r.ret >= 0
                THEN /\ o.r.ret = za.n_entries
                     /\ o.r.za.n_entries = za.n_entries + 1
                     /\ o.r.za.next_index = za.n_entries + 1
                     /\ KeepsEntries(za, o.r.za)
                     /\ NameAt(o.r.za, o.r.ret) = o.file.name
                ELSE o.r.za = za /\ o.r.f = disk.f)
    /\ [][za.open /\ za'.open => KeepsEntries(za, za')]_vars

\* C14: a handle that held entries at open has taken one more, and in this
\* state one zip_file_add call fails and another succeeds
C14_AddedAfterLoaded ==
    /\ za.open /\ za.mode = 1
    /\ hist.valid_base /\ hist.base.n_entries > 0
    /\ za.n_entries = hist.base.n_entries + 1
    /\ \E o \in AddOutcomes : o.r.ret < 0
    /\ \E o \in AddOutcomes : o.r.ret = za.n_entries

(* ------------------------------------------------------------------ *)
(* Open modes and the calls that change entries                         *)
(* ------------------------------------------------------------------ *)

\* the entries with the one at index i replaced by e2; a group of equal
\* entries is split around it
RECURSIVE ReplaceEntry(_, _, _)
ReplaceEntry(entries, i, e2) ==
    LET g == Head(entries)
    IN  IF i < g.n
        THEN SelectSeq(<< [g EXCEPT !.n = i],
                          [e |-> e2, n |-> 1, stride |-> g.stride],
                          [g EXCEPT !.e.local_hdr_ofs = @ + (i + 1) * g.stride,
                                    !.n = @ - i - 1] >>,
                       LAMBDA x : x.n > 0) \o Tail(entries)
        ELSE << g >> \o ReplaceEntry(Tail(entries), i - g.n, e2)

\* the method ids that zip_set_file_compression accepts in this build
EnabledMethods ==
    {OTEZIP_METHOD_STORE, OTEZIP_METHOD_DEFLATE, OTEZIP_METHOD_ZSTD, OTEZIP_METHOD_LZFSE,
     OTEZIP_METHOD_LZMA, OTEZIP_METHOD_BROTLI}

\* zip_set_file_compression without the test of the mode
set_file_compression_any_mode(h, index, comp) ==
    IF ~h.open \/ index >= h.n_entries THEN [ret |-> -1, za |-> h]
    ELSE IF comp \notin EnabledMethods THEN [ret |-> -1, za |-> h]
    ELSE [ret |-> 0,
          za |-> [h EXCEPT !.entries =
                     ReplaceEntry(@, index, [EntryAt(h.entries, index) EXCEPT !.method = comp])]]

\* zip_set_file_compression: the return code and the handle afterwards
zip_set_file_compression(h, index, comp) ==
    IF ~h.open \/ index >= h.n_entries \/ h.mode # 1 THEN [ret |-> -1, za |-> h]
    ELSE IF comp \notin EnabledMethods THEN [ret |-> -1, za |-> h]
    ELSE [ret |-> 0,
          za |-> [h EXCEPT !.entries =
                     ReplaceEntry(@, index, [EntryAt(h.entries, index) EXCEPT !.method = comp])]]

\* otezip_replace_entry_data: the size and the CRC of the entry are set
\* before the data is compressed, and stay set when the compression fails
otezip_replace_entry_data(h, f, index, src, tm, malloc0_null, garbage) ==
    IF ~h.open \/ index >= h.n_entries THEN [ret |-> -1, za |-> h, f |-> f]
    ELSE IF h.mode # 1 THEN [ret |-> -1, za |-> h, f |-> f]
    ELSE Bind([EntryAt(h.entries, index) EXCEPT !.uncomp_size = Len(src),
                                                !.crc32 = otezip_crc32(CrcZero, src)],
              LAMBDA e1 :
         Bind(otezip_compress_data(src, e1.method, malloc0_null, garbage), LAMBDA c :
              IF c.ret # 0
              THEN [ret |-> -1, za |-> [h EXCEPT !.entries = ReplaceEntry(@, index, e1)],
                    f |-> f]
              ELSE Bind(otezip_write_local_header(e1.name, c.method, Len(c.out),
                                                  e1.uncomp_size, e1.crc32, tm) \o c.out,
                        LAMBDA rec :
                   [ret |-> 0,
                    za |-> [h EXCEPT !.entries =
                               ReplaceEntry(@, index,
                                   [e1 EXCEPT !.method = c.method, !.comp_size = Len(c.out),
                                              !.local_hdr_ofs = h.pos]),
                            !.pos = @ + Len(rec)],
                    f |-> FileWrite(f, h.pos, << Seg(rec) >>)])))

zip_file_replace(h, f, index, src, tm, malloc0_null, garbage) ==
    Bind(otezip_replace_entry_data(h, f, index, src, tm, malloc0_null, garbage), LAMBDA r :
         IF r.ret # 0 THEN [r EXCEPT !.ret = -1] ELSE r)

\* most bytes before the position of a handle that still takes a replacement
MaxPos == 40

\* the open flags with and without ZIP_CREATE
ModeFlags ==
    {c + x + t : c \in {0, ZIP_CREATE}, x \in {0, ZIP_EXCL}, t \in {0, ZIP_TRUNCATE}}

\* zip_file_replace with a source of bytes src
ZipFileReplace(index, src, garbage) ==
    /\ za.open
    /\ za.pos < MaxPos
    /\ \E r \in {zip_file_replace(za, disk.f, index, src, Now, platform.malloc0_null,
                                  garbage)} :
          /\ za' = r.za
          /\ disk' = [disk EXCEPT !.f = r.f]
          /\ hist' = [hist EXCEPT !.pure = @ /\ r.za = za /\ r.f = disk.f]
    /\ UNCHANGED << errorp, zf, otezip_ignore_zipbomb, otezip_verify_crc, platform,
                    codec_vars >>

\* zip_set_file_compression
ZipSetFileCompression(index, comp) ==
    /\ za.open
    /\ \E r \in {zip_set_file_compression(za, index, comp)} :
          /\ za' = r.za
          /\ hist' = [hist EXCEPT !.pure = @ /\ r.za = za]
    /\ UNCHANGED << disk, errorp, zf, otezip_ignore_zipbomb, otezip_verify_crc, platform,
                    codec_vars >>

\* the files handed to zip_file_add and zip_file_replace under ModeSpec
ModeFiles == {file \in Files : Len(file.src) <= 1}

ModeNext ==
    \/ \E flags \in ModeFlags : ZipOpen(flags)
    \/ \E file \in ModeFiles : ZipFileAdd(file.name, file.src, 0)
    \/ \E index \in 0..MaxEntries, file \in ModeFiles : ZipFileReplace(index, file.src, 0)
    \/ \E index \in 0..MaxEntries, comp \in {OTEZIP_METHOD_DEFLATE, OTEZIP_METHOD_LZ4} :
          ZipSetFileCompression(index, comp)
    \/ \E index \in 0..MaxEntries : ZipFopenIndex(index, 0, FALSE)
    \/ ZipClose

\* archives opened under every combination of flags, changed and read
ModeSpec == Init /\ [][ModeNext]_vars

\* what the calls that change entries return and leave on the present handle
ChangeOutcomes ==
    {zip_file_add(za, disk.f, file.name, file.src, 1, Now, platform.malloc0_null, 0) :
        file \in Files}
    \cup {zip_file_replace(za, disk.f, index, file.src, Now, platform.malloc0_null, 0) :
             index \in 0..MaxEntries, file \in Files}
    \cup {[f |-> disk.f] @@ zip_set_file_compression(za, index, comp) :
             index \in 0..MaxEntries, comp \in Methods}

\* C15: on a handle opened without ZIP_CREATE, zip_file_add, zip_file_replace
\* and zip_set_file_compression fail and leave the entries and the file as
\* they were, zip_close leaves the file as it was, and no step from the open
\* to the close of such a handle changes the file
C15_ReadOnly ==
    /\ [](za.open /\ za.mode = 0 =>
             /\ \A r \in ChangeOutcomes : r.ret = -1 /\ r.za = za /\ r.f = disk.f
             /\ zip_close(za, disk.f) = disk.f)
    /\ [][(za.open /\ za.mode = 0) \/ (za'.open /\ za'.mode = 0) =>
             /\ disk' = disk
             /\ za.open /\ za'.open =>
                   za'.entries = za.entries /\ za'.n_entries = za.n_entries]_vars

\* C15: an archive of two entries is open on a handle that was opened with
\* ZIP_TRUNCATE and without ZIP_CREATE, and an entry was extracted from it
C15_ReadOnlyHandle ==
    /\ za.open /\ za.mode = 0
    /\ hist.last = ZIP_TRUNCATE
    /\ za.n_entries = 2
    /\ zf.valid /\ zf.ret = 0
    /\ FileSize(disk.f) > 0


\* C16: zip_open returns no handle and reports an error when the flags hold
\* ZIP_EXCL and ZIP_TRUNCATE together and when they hold ZIP_EXCL and the
\* file exists, and it leaves the file as it was
C16_OpenModeRejection ==
    ~za.open =>
        \A flags \in ModeFlags :
           \/ HasFlag(flags, ZIP_EXCL) /\ HasFlag(flags, ZIP_TRUNCATE)
           \/ HasFlag(flags, ZIP_EXCL) /\ disk.exists
           => Bind(zip_open(disk, flags, platform.malloc0_null), LAMBDA r :
                   ~r.za.open /\ r.errorp # 0 /\ r.disk = disk)

\* C16: zip_open with ZIP_EXCL and ZIP_TRUNCATE returned a handle and
\* reported no error
C16_OpenedExclusive ==
    /\ za.open
    /\ hist.last = ZIP_EXCL + ZIP_TRUNCATE
    /\ errorp = 0
    /\ za.n_entries > 0


\* what a caller learns from a failed extraction: the return code, and
\* whether the message of the expansion guard went to stderr
Report(r) == << r.ret, r.guard >>

\* the first entry of the present handle is a STORE entry that extracts under
\* the strict settings
SoundEntry ==
    /\ za.open /\ za.mode = 0 /\ za.n_entries > 0
    /\ Bind(EntryAt(za.entries, 0), LAMBDA e :
          /\ e.method = OTEZIP_METHOD_STORE
          /\ e.comp_size > 0
          /\ e.crc32 # CrcZero
          /\ otezip_extract_entry(disk.f, e, 0, 1, platform.malloc0_null, 0, FALSE).ret = 0)

\* the extraction of the first entry under the strict settings when one
\* field of the entry is off, by the kind of failure it is
FailureCases ==
    LET e == EntryAt(za.entries, 0)
        X(v) == otezip_extract_entry(disk.f, v, 0, 1, platform.malloc0_null, 0, FALSE)
    IN  {[kind |-> "expansion-limit", r |-> X([e EXCEPT !.uncomp_size = BombSize])],
         [kind |-> "crc-mismatch", r |-> X([e EXCEPT !.crc32 = CrcZero])],
         [kind |-> "unsupported-method", r |-> X([e EXCEPT !.method = OTEZIP_METHOD_LZ4])],
         [kind |-> "codec-data-error", r |-> X([e EXCEPT !.method = OTEZIP_METHOD_DEFLATE])],
         [kind |-> "malformed-archive", r |-> X([e EXCEPT !.local_hdr_ofs = @ + 1])]}

\* *errorp of zip_open (flags) on the present file
OpenError(flags) == zip_open(disk, flags, platform.malloc0_null).errorp

\* C17: extractions that fail for different kinds of reason are reported
\* differently, and zip_open reports ZIP_EXCL on an existing file differently
\* from ZIP_EXCL together with ZIP_TRUNCATE
C17_DistinctKinds ==
    /\ SoundEntry =>
          \A p, q \in FailureCases :
             p.r.ret # 0 /\ (p.kind # q.kind => Report(p.r) # Report(q.r))
    /\ disk.exists /\ ~za.open =>
          /\ OpenError(ZIP_CREATE + ZIP_EXCL) # 0
          /\ OpenError(ZIP_CREATE + ZIP_EXCL + ZIP_TRUNCATE) # 0
          /\ OpenError(ZIP_CREATE + ZIP_EXCL) # OpenError(ZIP_CREATE + ZIP_EXCL + ZIP_TRUNCATE)

\* C17: the first entry was extracted, each of the five failures occurs on
\* it, the expansion guard is the one that rejects the oversized entry, and
\* the other four failures are reported alike
C17_SameReport ==
    /\ SoundEntry
    /\ zf.valid /\ zf.index = 0 /\ zf.ret = 0
    /\ \A p \in FailureCases : p.r.ret = -1 /\ (p.r.guard <=> p.kind = "expansion-limit")
    /\ \A p, q \in FailureCases : ~p.r.guard /\ ~q.r.guard => Report(p.r) = Report(q.r)
    /\ Cardinality({p.kind : p \in FailureCases}) = 5


(* ------------------------------------------------------------------ *)
(* Streams that stop taking bytes                                       *)
(* ------------------------------------------------------------------ *)

\* fwrite of rec at position pos on a stream that takes room more bytes: the
\* file afterwards and the number of bytes written
fwrite_room(f, pos, rec, room) ==
    Bind(IF room < Len(rec) THEN room ELSE Len(rec), LAMBDA w :
         [f |-> FileWrite(f, pos, << Seg(SubSeq(rec, 1, w)) >>), written |-> w])

\* zip_file_add when the stream takes room more bytes.  The results of
\* otezip_write_local_header and of fwrite are not looked at, so the return
\* value and the entry are those of a call whose writes were complete.
zip_file_add_room(h, f, name, src, tm, malloc0_null, garbage, room) ==
    Bind(zip_file_add(h, f, name, src, 1, tm, malloc0_null, garbage), LAMBDA r :
         IF r.ret < 0 THEN r
         ELSE Bind(fwrite_room(f, h.pos, FileRead(r.f, h.pos, r.za.pos - h.pos), room),
                   LAMBDA w : [r EXCEPT !.f = w.f, !.za.pos = h.pos + w.written]))

\* zip_close when the stream takes room more bytes: the file afterwards and
\* the return value.  The result of otezip_finalize_archive is not looked at.
zip_close_room(h, f, room) ==
    IF ~h.open THEN [ret |-> -1, f |-> f]
    ELSE IF h.mode # 1 THEN [ret |-> 0, f |-> f]
    ELSE Bind(zip_close(h, f), LAMBDA g :
              [ret |-> 0,
               f |-> fwrite_room(f, h.pos, FileRead(g, h.pos, FileSize(g) - h.pos), room).f])

\* the numbers of bytes that a stream still takes: none, less than a local
\* header, and more than any record of the model
Rooms == {0, 10, FarAway}

\* zip_file_add on a stream that takes room more bytes
ZipFileAddRoom(name, src, room) ==
    /\ za.open
    /\ za.mode = 1
    /\ Len(za.entries) < MaxEntries
    /\ \E r \in {zip_file_add_room(za, disk.f, name, src, Now, platform.malloc0_null, 0,
                                   room)} :
          /\ za' = r.za
          /\ disk' = [disk EXCEPT !.f = r.f]
          /\ hist' = IF r.ret < 0 THEN hist
                     ELSE [hist EXCEPT
                              !.log = Append(@, [name |-> name, src |-> src, n |-> 1,
                                                 method |-> za.default_method,
                                                 e |-> r.za.entries[Len(r.za.entries)].e]),
                              !.pure = @ /\ room = FarAway]
    /\ UNCHANGED << errorp, zf, otezip_ignore_zipbomb, otezip_verify_crc, platform,
                    codec_vars >>

\* zip_close on a stream that takes room more bytes; errorp takes the return
\* value
ZipCloseRoom(room) ==
    /\ za.open
    /\ \E r \in {zip_close_room(za, disk.f, room)} :
          /\ disk' = [disk EXCEPT !.f = r.f]
          /\ errorp' = r.ret
    /\ za' = NoHandle
    /\ hist' = IF za.mode = 1
               THEN [hist EXCEPT !.last = -1, !.closed = TRUE, !.close_n = za.n_entries,
                                 !.close_pos = za.pos, !.close_entries = za.entries,
                                 !.pure = @ /\ room = FarAway]
               ELSE [hist EXCEPT !.last = -1]
    /\ zf' = NoFile
    /\ UNCHANGED << otezip_ignore_zipbomb, otezip_verify_crc, platform, codec_vars >>

RoomNext ==
    \/ \E flags \in OpenFlags : ZipOpen(flags)
    \/ \E file \in Files, room \in Rooms : ZipFileAddRoom(file.name, file.src, room)
    \/ \E room \in Rooms : ZipCloseRoom(room)

\* archives written to streams that may stop taking bytes
RoomSpec == Init /\ [][RoomNext]_vars

\* the bytes of the archive that the present handle would leave if every
\* write were complete, from the position of the handle on
Finalized == FileRead(zip_close(za, disk.f), za.pos, FileSize(zip_close(za, disk.f)) - za.pos)

\* C18: when the stream takes fewer bytes than zip_file_add writes, the call
\* returns an error and adds no entry; when it takes fewer bytes than
\* zip_close writes on a write handle, zip_close returns an error
C18_WriteFailures ==
    za.open /\ za.mode = 1 =>
        /\ \A file \in Files, room \in Rooms :
              Bind(zip_file_add(za, disk.f, file.name, file.src, 1, Now,
                                platform.malloc0_null, 0), LAMBDA whole :
              Bind(zip_file_add_room(za, disk.f, file.name, file.src, Now,
                                     platform.malloc0_null, 0, room), LAMBDA r :
                 whole.ret >= 0 /\ room < whole.za.pos - za.pos =>
                    r.ret < 0 /\ r.za.n_entries = za.n_entries))
        /\ \A room \in Rooms :
              room < Len(Finalized) => zip_close_room(za, disk.f, room).ret # 0

\* C18: zip_file_add returned an index and zip_close returned 0 on a stream
\* that took neither the record of the entry nor the end record
C18_SilentLoss ==
    /\ ~za.open
    /\ hist.closed /\ hist.close_n = 1 /\ Len(hist.log) = 1
    /\ errorp = 0
    /\ FileSize(disk.f) < 22


(* ------------------------------------------------------------------ *)
(* Ownership of sources                                                 *)
(* ------------------------------------------------------------------ *)

\* zip_source_buffer: the source object for the bytes data
zip_source_buffer(data, freep) == [buf |-> data, len |-> Len(data), freep |-> freep]

\* zip_file_add of a source object: the return value, and how often the call
\* frees the data buffer and the source object.  The two free calls stand
\* behind the writes, on the path that returns the index; no return before
\* them frees either.
zip_file_add_source(h, f, name, source, tm, malloc0_null, garbage) ==
    Bind(zip_file_add(h, f, name, source.buf, 1, tm, malloc0_null, garbage), LAMBDA r :
         [ret |-> r.ret,
          buf_frees |-> IF r.ret >= 0 /\ source.freep # 0 THEN 1 ELSE 0,
          src_frees |-> IF r.ret >= 0 THEN 1 ELSE 0])

\* what zip_file_add does to the sources handed to the present handle
SourceOutcomes ==
    {[freep |-> freep,
      r |-> zip_file_add_source(za, disk.f, file.name, zip_source_buffer(file.src, freep),
                                Now, platform.malloc0_null, 0)] :
        file \in Files, freep \in {0, 1}}

\* C19: zip_file_add frees the data buffer and the source object of a source
\* made with freep set exactly once, whether it returns an index or fails,
\* and never frees the data buffer of a source made with freep clear
C19_SourceOwnership ==
    za.open =>
        \A o \in SourceOutcomes :
           IF o.freep # 0 THEN o.r.buf_frees = 1 /\ o.r.src_frees = 1
           ELSE o.r.buf_frees = 0

\* C19: a write handle has taken an entry, and one zip_file_add call on it
\* fails without freeing the buffer of a source made with freep set
C19_LeakedSource ==
    /\ za.open /\ za.mode = 1
    /\ za.n_entries = 1 /\ Len(hist.log) = 1
    /\ \E o \in SourceOutcomes :
          o.freep = 1 /\ o.r.ret < 0 /\ o.r.buf_frees = 0 /\ o.r.src_frees = 0
    /\ \E o \in SourceOutcomes :
          o.freep = 1 /\ o.r.ret >= 0 /\ o.r.buf_frees = 1 /\ o.r.src_frees = 1


(* ------------------------------------------------------------------ *)
(* Archives followed by other bytes                                     *)
(* ------------------------------------------------------------------ *)

\* bytes that another program leaves behind the end record of an archive:
\* end records that declare no entry, a directory beyond the file, a directory
\* at offset 0, a directory of two bytes, and a signature with two bytes
Tails ==
    {otezip_write_end_of_central_directory(0, 0, 0),
     otezip_write_end_of_central_directory(1, FarAway, 0),
     otezip_write_end_of_central_directory(1, 4, 0),
     otezip_write_end_of_central_directory(1, 2, 0),
     MZIP_SIG_EOCD \o << 0, 0 >>}

\* another program appends tail to the archive that the library closed
TrailingBytes(tail) ==
    /\ ~za.open
    /\ disk.exists
    /\ hist.kind = "library" /\ hist.closed /\ hist.pure
    /\ disk' = [disk EXCEPT !.f = FileWrite(@, FileSize(@), << Seg(tail) >>)]
    /\ hist' = [hist EXCEPT !.pure = FALSE]
    /\ UNCHANGED << za, errorp, zf, otezip_ignore_zipbomb, otezip_verify_crc, platform,
                    codec_vars >>

TailNext ==
    \/ \E flags \in OpenFlags : ZipOpen(flags)
    \/ \E file \in ModeFiles : ZipFileAdd(file.name, file.src, 0)
    \/ \E index \in 0..MaxEntries : ZipFopenIndex(index, 0, FALSE)
    \/ ZipClose
    \/ \E tail \in Tails : TrailingBytes(tail)

\* archives of the library, with and without bytes behind them, opened again
TailSpec == Init /\ [][TailNext]_vars

\* the offsets in file f, among its last 65558 bytes, of the records that
\* start with the EOCD signature, whose directory range lies inside the file
\* and starts with the CDH signature
PassingCandidates(f) ==
    LET file_size == FileSize(f)
        low == IF file_size < 65558 THEN 0 ELSE file_size - 65558
    IN  {p \in low..(file_size - 22) :
           /\ FileRead(f, p, 4) = MZIP_SIG_EOCD
           /\ LET rec == FileRead(f, p, 22)
                  cd_size == otezip_rd32(rec, 12)
                  cd_ofs == otezip_rd32(rec, 16)
              IN  /\ cd_ofs >= 0 /\ cd_size >= 0
                  /\ cd_ofs <= file_size /\ cd_size <= file_size - cd_ofs
                  /\ cd_ofs + 4 <= file_size
                  /\ FileRead(f, cd_ofs, 4) = MZIP_SIG_CDH}

\* C20: otezip_find_eocd returns the highest offset of a record that passes
\* the range check and the signature check at its directory offset, whatever
\* number of entries the record declares, with the fields of that record,
\* and reports an inconsistent archive when no record passes
C20_EocdLocation ==
    disk.exists =>
        Bind(otezip_find_eocd(disk.f), LAMBDA r :
        Bind(PassingCandidates(disk.f), LAMBDA cs :
           IF cs = {} THEN r.pos = OTEZIP_ERR_INCONS
           ELSE /\ r.pos \in cs
                /\ \A p \in cs : p <= r.pos
                /\ r.total_entries = otezip_rd16(FileRead(disk.f, r.pos, 22), 10)
                /\ r.cd_size = otezip_rd32(FileRead(disk.f, r.pos, 22), 12)
                /\ r.cd_ofs = otezip_rd32(FileRead(disk.f, r.pos, 22), 16)))

\* C20: an archive written with one entry and followed by an end record
\* that declares no entry was refused as inconsistent: the search took the
\* record at the end of the file, while the record of the library is the
\* highest one that passes every check
C20_TookTrailingRecord ==
    /\ ~za.open /\ disk.exists
    /\ hist.last = ZIP_RDONLY /\ errorp = ZIP_ER_INCONS
    /\ TotalAdds(hist.log) = 1 /\ ~hist.pure
    /\ otezip_find_eocd(disk.f).pos = FileSize(disk.f) - 22
    /\ PassingCandidates(disk.f) # {}
    /\ \A p \in PassingCandidates(disk.f) : p < FileSize(disk.f) - 22


(* ------------------------------------------------------------------ *)
(* The write position of a handle                                       *)
(* ------------------------------------------------------------------ *)

\* the end record of the archive that the present appending handle loaded
OldEocd == otezip_find_eocd(hist.base_f)

\* the present handle was opened with ZIP_CREATE on an existing archive that
\* was not truncated
Appending == za.open /\ za.mode = 1 /\ hist.appended /\ hist.base.open

\* C21: a handle opened for appending stands at the offset of the old central
\* directory after the load, and the local header of the first entry added
\* is written at that offset
C21_AppendPosition ==
    Appending =>
        /\ hist.base.pos = OldEocd.cd_ofs
        /\ za.n_entries > hist.base.n_entries =>
              /\ EntryAt(za.entries, hist.base.n_entries).local_hdr_ofs = OldEocd.cd_ofs
              /\ FileRead(disk.f, OldEocd.cd_ofs, 4) = MZIP_SIG_LFH

\* C21: the first entry added to an appending handle has its local header
\* behind the old central directory, which is still in the file
C21_BehindOldDirectory ==
    /\ Appending
    /\ za.n_entries = hist.base.n_entries + 1
    /\ OldEocd.cd_size > 0
    /\ EntryAt(za.entries, hist.base.n_entries).local_hdr_ofs = OldEocd.cd_ofs + OldEocd.cd_size
    /\ FileRead(disk.f, OldEocd.cd_ofs, 4) = MZIP_SIG_CDH
    /\ FileRead(disk.f, OldEocd.cd_ofs + OldEocd.cd_size, 4) = MZIP_SIG_LFH


(* ------------------------------------------------------------------ *)
(* Deflate sessions fed in chunks                                       *)
(* ------------------------------------------------------------------ *)

\* deflate called on the chunk of input, with room for any output of it
deflate_chunk(e, chunk, fl) ==
    deflate([e EXCEPT !.in = chunk, !.avail_out = compressBound(Len(chunk)) + 8], fl)

\* a raw deflate session on X in two calls: the first k bytes with
\* Z_NO_FLUSH, the others with Z_FINISH
DeflateChunks(X, k, lv, garbage) ==
    /\ kind = "none"
    /\ k \in 1..(Len(X) - 1)
    /\ \E i \in {deflateInit2(lv, -MAX_WBITS, garbage)} :
          /\ i.ret = Z_OK
          /\ \E r1 \in {deflate_chunk(i.e, SubSeq(X, 1, k), Z_NO_FLUSH)} :
                /\ r1.ret = Z_OK
                /\ Len(r1.e.in) = 0
                /\ \E r2 \in {deflate_chunk(r1.e, SubSeq(X, k + 1, Len(X)), Z_FINISH)} :
                      /\ enc' = [ret |-> r2.ret, ub |-> r2.e.ub, split |-> k,
                                 garbage |-> garbage]
                      /\ stream' = r2.e.out
    /\ plain' = X
    /\ kind' = "deflate"
    /\ level' = lv
    /\ UNCHANGED << strm, flush, inf_ret, calls, archive_vars >>

ChunkNext ==
    \/ \E X \in CodecInputs, k \in 1..MaxLen, lv \in Levels \ {Z_NO_COMPRESSION},
          g \in GarbageBytes : DeflateChunks(X, k, lv, g)
    \/ \E g \in GarbageBytes : InflateInit(Z_FINISH, g)
    \/ \E space \in 0..(MaxLen + 1) : InflateCall(space)

\* deflate sessions in two calls, decoded in one
ChunkSpec == CodecInit /\ [][ChunkNext]_vars

\* what one deflate call with Z_FINISH emits for the whole input of the
\* present session
OneCallStream ==
    deflate_chunk(deflateInit2(level, -MAX_WBITS, enc.garbage).e, plain, Z_FINISH).e.out

\* C22: a deflate session fed in two chunks, the second with Z_FINISH, ends
\* with end-of-stream having emitted the bytes that one call on the whole
\* input emits: one block with the final-block bit set, which inflate decodes
\* to the input and end-of-stream
C22_ChunkedSession ==
    kind = "deflate" =>
        /\ enc.ret = Z_STREAM_END
        /\ stream # << >> /\ stream[1] % 2 = 1
        /\ stream = OneCallStream
        /\ OneShot => inf_ret = Z_STREAM_END /\ strm.out = plain

\* C22: a session at level 1 fed in two chunks emitted a stream that starts a
\* block without the final-block bit and differs from the one-call stream,
\* and inflate does not reach its end
C22_SecondHeader ==
    /\ kind = "deflate" /\ level = 1
    /\ enc.ret = Z_STREAM_END /\ ~enc.ub
    /\ stream # << >> /\ stream[1] % 2 = 0
    /\ stream # OneCallStream
    /\ OneShot /\ inf_ret # Z_STREAM_END


(* ------------------------------------------------------------------ *)
(* Length and distance symbols                                          *)
(*                                                                      *)
(* The encoder turns a match into a length symbol, a distance symbol    *)
(* and the extra bits of each; the decoder adds the extra bits it reads *)
(* to the base value of the symbol.  The Huffman codes of the symbols   *)
(* are left out here: the symbol goes from one side to the other as a   *)
(* number, the extra bits through write_bits and get_bits.              *)
(* ------------------------------------------------------------------ *)

MinMatchLen == 3

MaxMatchLen == 258

max_dist == 32768

\* the value of the extra bits of a match length, as deflate computes it
LengthExtraValue(match_len) ==
    (match_len - LengthExtraBase(LengthCode(match_len).extra_bits))
        % (2 ^ LengthCode(match_len).extra_bits)

\* the value of the extra bits of a distance, as deflate computes it
DistanceExtraValue(distance) ==
    (distance - dist_base_values[DistanceCode(distance).extra_bits + 1])
        % (2 ^ DistanceCode(distance).extra_bits)

\* the extra bits of one symbol written by a fresh session and flushed
ExtraBitsWritten(value, bits) ==
    Bind([deflateInit2(Z_DEFAULT_COMPRESSION, -MAX_WBITS, 0).e EXCEPT !.avail_out = 4],
         LAMBDA e : flush_bits(IF bits > 0 THEN write_bits(e, value, bits).e ELSE e).e.out)

\* deflate on a match of match_len bytes: the length symbol and its extra bits
EncodeLength(match_len) ==
    /\ kind = "none"
    /\ enc' = [ret |-> Z_OK, ub |-> FALSE, code |-> LengthCode(match_len).code,
               extra_bits |-> LengthCode(match_len).extra_bits]
    /\ stream' = ExtraBitsWritten(LengthExtraValue(match_len),
                                  LengthCode(match_len).extra_bits)
    /\ plain' = << match_len >>
    /\ kind' = "length"
    /\ UNCHANGED << level, strm, flush, inf_ret, calls, archive_vars >>

\* deflate on a match at the given distance: the distance symbol and its extra bits
EncodeDistance(distance) ==
    /\ kind = "none"
    /\ enc' = [ret |-> Z_OK, ub |-> FALSE, code |-> DistanceCode(distance).code,
               extra_bits |-> DistanceCode(distance).extra_bits]
    /\ stream' = ExtraBitsWritten(DistanceExtraValue(distance),
                                  DistanceCode(distance).extra_bits)
    /\ plain' = << distance >>
    /\ kind' = "distance"
    /\ UNCHANGED << level, strm, flush, inf_ret, calls, archive_vars >>

\* inflate on the length symbol: base value plus the extra bits it reads; the
\* local variable length is kept in pending_length
DecodeLength ==
    /\ kind = "length"
    /\ ~strm.open
    /\ enc.code \in 257..285
    /\ \E g \in {IF length_extra[enc.code - 257 + 1] > 0
                 THEN get_bits([inflateInit2(-MAX_WBITS, 0) EXCEPT !.in = stream],
                               length_extra[enc.code - 257 + 1])
                 ELSE [d |-> [inflateInit2(-MAX_WBITS, 0) EXCEPT !.in = stream],
                       v |-> 0]} :
          /\ strm' = [g.d EXCEPT !.pending_length =
                                     length_base[enc.code - 257 + 1] + g.v]
                     @@ [open |-> TRUE]
          /\ inf_ret' = IF g.v < 0 THEN Z_DATA_ERROR ELSE Z_OK
    /\ UNCHANGED << plain, kind, level, enc, stream, flush, calls, archive_vars >>

\* inflate on the distance symbol: base value plus the extra bits it reads; the
\* local variable distance is kept in pending_distance
DecodeDistance ==
    /\ kind = "distance"
    /\ ~strm.open
    /\ enc.code \in 0..29
    /\ \E g \in {IF dist_extra[enc.code + 1] > 0
                 THEN get_bits([inflateInit2(-MAX_WBITS, 0) EXCEPT !.in = stream],
                               dist_extra[enc.code + 1])
                 ELSE [d |-> [inflateInit2(-MAX_WBITS, 0) EXCEPT !.in = stream],
                       v |-> 0]} :
          /\ strm' = [g.d EXCEPT !.pending_distance = dist_base[enc.code + 1] + g.v]
                     @@ [open |-> TRUE]
          /\ inf_ret' = IF g.v < 0 THEN Z_DATA_ERROR ELSE Z_OK
    /\ UNCHANGED << plain, kind, level, enc, stream, flush, calls, archive_vars >>

SymbolNext ==
    \/ \E match_len \in MinMatchLen..MaxMatchLen : EncodeLength(match_len)
    \/ \E distance \in 1..max_dist : EncodeDistance(distance)
    \/ DecodeLength
    \/ DecodeDistance

SymbolSpec == CodecInit /\ [][SymbolNext]_vars

\* C23: the length symbol deflate computes for a match length lies in
\* 257..285, the distance symbol it computes for a distance lies in 0..29,
\* each carries as many extra bits as inflate reads for that symbol, and the
\* base value of inflate's tables plus the extra bits gives back exactly the
\* length and the distance.
C23_CodeMapping ==
    /\ kind = "length" =>
          /\ enc.code \in 257..285
          /\ enc.extra_bits = length_extra[enc.code - 257 + 1]
          /\ strm.open => inf_ret = Z_OK /\ strm.pending_length = plain[1]
    /\ kind = "distance" =>
          /\ enc.code \in 0..29
          /\ enc.extra_bits = dist_extra[enc.code + 1]
          /\ strm.open => inf_ret = Z_OK /\ strm.pending_distance = plain[1]

\* the longest match, sent as symbol 284 with all five extra bits set
C23_LongestMatch ==
    /\ kind = "length"
    /\ plain = << MaxMatchLen >>
    /\ enc.code = 284
    /\ stream = << 31 >>
    /\ strm.open
    /\ strm.pending_length = MaxMatchLen


(* ------------------------------------------------------------------ *)
(* Reading through a handle that writes                                 *)
(*                                                                      *)
(* zip_fopen_index does not look at the mode of the handle: on a        *)
(* handle opened with ZIP_CREATE it seeks to the entry it extracts and  *)
(* leaves the stream behind the payload it read.                        *)
(* ------------------------------------------------------------------ *)

\* zip_fopen_index on a handle opened for writing
ZipFopenIndexWriting(index, garbage, oob_crc_match) ==
    /\ za.open
    /\ za.mode = 1
    /\ \E r \in {zip_fopen_index(za, disk.f, index, otezip_ignore_zipbomb, otezip_verify_crc,
                                 platform.malloc0_null, garbage, oob_crc_match)} :
          /\ zf' = [valid |-> TRUE, index |-> index,
                    found |-> index < za.n_entries,
                    e |-> IF index < za.n_entries THEN EntryAt(za.entries, index)
                          ELSE << >>,
                    ret |-> r.ret, data |-> r.data, zeros |-> r.zeros, size |-> r.size,
                    decoded |-> r.decoded, alloc_uncomp |-> r.alloc_uncomp,
                    guard |-> r.guard, ub |-> r.ub]
          /\ za' = [za EXCEPT !.pos = r.pos]
    /\ UNCHANGED << disk, errorp, hist, otezip_ignore_zipbomb, otezip_verify_crc, platform,
                    codec_vars >>

InterleaveNext ==
    \/ \E flags \in {ZIP_CREATE, ZIP_CREATE + ZIP_TRUNCATE} : ZipOpen(flags)
    \/ \E file \in ModeFiles : ZipFileAdd(file.name, file.src, 0)
    \/ \E index \in 0..MaxEntries, file \in ModeFiles : ZipFileReplace(index, file.src, 0)
    \/ \E index \in 0..MaxEntries : ZipFopenIndexWriting(index, 0, FALSE)
    \/ ZipClose

\* writing sessions in which entries are added, replaced and read in any order
InterleaveSpec == Init /\ [][InterleaveNext]_vars

\* the first byte behind the local header and payload of entry e
EntryEnd(e) == e.local_hdr_ofs + 30 + Len(e.name) + e.comp_size

\* the records of entries i and j of handle h share no byte
Apart(h, i, j) ==
    \/ EntryEnd(EntryAt(h.entries, i)) <= EntryAt(h.entries, j).local_hdr_ofs
    \/ EntryEnd(EntryAt(h.entries, j)) <= EntryAt(h.entries, i).local_hdr_ofs

\* C24: on a handle opened for writing, whatever the order of zip_file_add,
\* zip_file_replace and zip_fopen_index calls, the stream stands behind the
\* record of every live entry (so the next local header and payload, and the
\* central directory at close, are written behind all of them), the records of
\* two distinct live entries never overlap, and the central directory written
\* by zip_close starts behind the last payload.
C24_WritePosition ==
    /\ za.open /\ za.mode = 1 =>
          /\ \A i \in 0..(za.n_entries - 1) : EntryEnd(EntryAt(za.entries, i)) <= za.pos
          /\ \A i, j \in 0..(za.n_entries - 1) : i # j => Apart(za, i, j)
    /\ hist.closed =>
          \A i \in 0..(hist.close_n - 1) :
             EntryEnd(EntryAt(hist.close_entries, i)) <= hist.close_pos

\* two entries were added, the first was read and then replaced: its new
\* record lies on top of the record of the second
C24_ReplacedOverNeighbour ==
    /\ za.open
    /\ za.mode = 1
    /\ za.n_entries = 2
    /\ zf.valid /\ zf.ret = 0 /\ zf.index = 0
    /\ EntryAt(za.entries, 0).local_hdr_ofs = EntryAt(za.entries, 1).local_hdr_ofs
    /\ EntryAt(za.entries, 1).local_hdr_ofs > 0
    /\ za.pos = EntryEnd(EntryAt(za.entries, 1))


(* ------------------------------------------------------------------ *)
(* Opens that return no handle                                          *)
(* ------------------------------------------------------------------ *)

\* C25: whenever zip_open returns no handle for an existing path, under any
\* combination of flags, the bytes of the file are the bytes it had before
\* the call
C25_FailedOpen ==
    ~za.open /\ disk.exists =>
        \A flags \in ModeFlags :
           Bind(zip_open(disk, flags, platform.malloc0_null), LAMBDA r :
                ~r.za.open => r.disk = disk)

\* an archive of one entry, followed by an end record that declares nothing,
\* was opened with ZIP_CREATE: the open was refused, and the file now starts
\* with an end record where the local header of the entry was
C25_HeaderOverwritten ==
    /\ ~za.open /\ disk.exists
    /\ hist.last = ZIP_CREATE /\ errorp = ZIP_ER_INCONS
    /\ TotalAdds(hist.log) = 1 /\ ~hist.pure
    /\ FileRead(disk.f, 0, 4) = MZIP_SIG_EOCD
    /\ FileSize(disk.f) = hist.close_pos + 46 + Len(hist.close_entries[1].e.name) + 22 + 22


(* ------------------------------------------------------------------ *)
(* The method fields of a closed archive                                *)
(* ------------------------------------------------------------------ *)

\* the method field of the local header at offset ofs of file f
LocalMethod(f, ofs) == otezip_rd16(FileRead(f, ofs, 30), 8)

\* C26: after any sequence of zip_file_add, zip_set_file_compression and
\* zip_file_replace calls followed by zip_close, every entry of the central
\* directory carries the method that the local header it points to carries
\* (the method of the codec that encoded the payload written behind it)
C26_MethodConsistency ==
    ~za.open /\ disk.exists /\ hist.kind = "library" /\ hist.closed /\ hist.last = -1 =>
        Bind(otezip_load_central(disk.f, FALSE), LAMBDA l :
             l.ret = 0 =>
                \A i \in 0..(l.n_entries - 1) :
                   LocalMethod(disk.f, EntryAt(l.entries, i).local_hdr_ofs)
                      = EntryAt(l.entries, i).method)

\* one stored entry whose method was set to DEFLATE before the close: the
\* central header says DEFLATE, the local header says STORE, and the payload
\* is the byte as it was given
C26_StoredAsDeflate ==
    /\ ~za.open /\ disk.exists /\ hist.kind = "library" /\ hist.closed /\ hist.last = -1
    /\ hist.close_n = 1
    /\ EntryAt(hist.close_entries, 0).local_hdr_ofs = 0
    /\ EntryAt(hist.close_entries, 0).uncomp_size = 1
    /\ LocalMethod(disk.f, 0) = OTEZIP_METHOD_STORE
    /\ otezip_rd16(FileRead(disk.f, hist.close_pos, 46), 10) = OTEZIP_METHOD_DEFLATE
    /\ FileRead(disk.f, 30 + Len(EntryAt(hist.close_entries, 0).name), 1)
          = hist.log[1].src


(* ------------------------------------------------------------------ *)
(* The passes of the decompression loop                                 *)
(*                                                                      *)
(* Here one inflate call is a sequence of steps: the code before the    *)
(* loop, then one pass of the loop per step.  strm.pc is "loop" while   *)
(* the call is inside the loop and "idle" between calls.  stream holds  *)
(* the bytes the caller has not handed over yet; every call hands over  *)
(* some more of them behind the ones the decoder left unread.           *)
(* ------------------------------------------------------------------ *)

\* inflate up to the loop: the pending literal and the pending copy
inflate_enter(d) ==
    IF d.pending_literal >= 0 /\ d.avail_out = 0 THEN Ret(d, Z_OK)
    ELSE Bind(IF d.pending_literal >= 0
              THEN [EmitByte(d, d.pending_literal) EXCEPT !.pending_literal = -1]
              ELSE d, LAMBDA d1 :
         Bind(IF d1.pending_copy # 0
              THEN do_copy_from_window(d1, d1.pending_length, d1.pending_distance)
              ELSE d1, LAMBDA d2 :
              IF d2.pending_copy # 0 THEN Ret(d2, Z_OK) ELSE Cont(d2)))

\* a pass that leaves the decoder as it found it
stalled_pass(d, fl) == IF Len(d.in) > 0 THEN Cont(d) ELSE Ret(d, Z_BUF_ERROR)

\* the test of the while loop and one pass: the body, the two checks at the
\* end of the pass, and the three returns behind the loop when the test fails
inflate_pass(d, fl) ==
    IF Len(d.in) > 0
    THEN Bind(inflate_body(d), LAMBDA r :
              IF r.done THEN r
              ELSE IF r.d.final_block # 0 /\ r.d.state = 0 THEN Ret(r.d, Z_STREAM_END)
              ELSE IF fl = Z_FINISH /\ Len(r.d.in) = 0
              THEN IF r.d.final_block = 0 \/ r.d.state # 0
                   THEN Ret(r.d, Z_BUF_ERROR)
                   ELSE Ret(r.d, Z_STREAM_END)
              ELSE Cont(r.d))
    ELSE IF d.final_block # 0 /\ d.state = 0 THEN Ret(d, Z_STREAM_END)
    ELSE IF d.avail_out = 0 THEN Ret(d, Z_OK)
    ELSE Ret(d, Z_BUF_ERROR)

\* a block that is not final, of five 9-bit literals, whose end-of-block code
\* ends one bit before a byte boundary, and a final block of one literal
TwoBlockStream == << 58, 113, 242, 212, 233, 51, 128, 37, 2, 0 >>

\* bytes that start a stored, a fixed, a dynamic and an invalid block
HeaderBytes == {0, 3, 5, 7, 255}

\* the streams handed to the decoder piece by piece: conforming ones and
\* arbitrary bytes
LoopInputs ==
    {FixedLiteralStream(<< 97 >>), FixedLiteralStream(<< 144, 144 >>),
     StoredStream(<< 97, 97 >>), TwoBlockStream, DynamicStream}
    \cup (SeqsUpTo(HeaderBytes, 2) \ {<< >>})

\* most inflate calls on one stream handed over piece by piece
MaxLoopCalls == 3

\* the output space offered by one call
LoopSpaces == {0, 1, Len(DynamicPlain)}

\* inflateInit2 (-15) by a caller that holds input
LoopStart(input, garbage) ==
    /\ kind = "none"
    /\ kind' = "raw"
    /\ stream' = input
    /\ strm' = inflateInit2(-MAX_WBITS, garbage) @@ [open |-> TRUE, pc |-> "idle"]
    /\ inf_ret' = Z_OK
    /\ calls' = 0
    /\ UNCHANGED << plain, level, enc, flush, archive_vars >>

\* an inflate call that hands over n more bytes and offers space bytes of
\* output, up to the loop; Z_FINISH comes with the last bytes
InflateEnter(n, space, fl) ==
    /\ kind = "raw"
    /\ strm.open /\ strm.pc = "idle"
    /\ inf_ret \in {Z_OK, Z_BUF_ERROR}
    /\ calls < MaxLoopCalls
    /\ n <= Len(stream)
    /\ n > 0 \/ space > 0
    /\ fl = Z_FINISH => n = Len(stream)
    /\ \E r \in {inflate_enter([strm EXCEPT !.in = @ \o SubSeq(stream, 1, n),
                                            !.avail_out = space])} :
          /\ strm' = [r.d EXCEPT !.pc = IF r.done THEN "idle" ELSE "loop"]
          /\ inf_ret' = r.ret
    /\ stream' = SubSeq(stream, n + 1, Len(stream))
    /\ flush' = fl
    /\ calls' = calls + 1
    /\ UNCHANGED << plain, kind, level, enc, archive_vars >>

\* one pass of the loop of the call in progress, or the return behind the loop
InflatePass ==
    /\ kind = "raw"
    /\ strm.open /\ strm.pc = "loop"
    /\ \E r \in {inflate_pass(strm, flush)} :
          /\ strm' = [r.d EXCEPT !.pc = IF r.done THEN "idle" ELSE "loop"]
          /\ inf_ret' = r.ret
    /\ UNCHANGED << plain, kind, level, enc, stream, flush, calls, archive_vars >>

LoopNext ==
    \/ \E input \in LoopInputs : LoopStart(input, 0)
    \/ \E n \in 0..Len(DynamicStream), space \in LoopSpaces, fl \in {Z_NO_FLUSH, Z_FINISH} :
          InflateEnter(n, space, fl)
    \/ InflatePass

\* a call that has entered the loop goes on until it returns
LoopSpec == CodecInit /\ [][LoopNext]_vars /\ WF_vars(InflatePass)

InLoop == strm.open /\ strm.pc = "loop"

\* C27: every inflate call returns, whatever the input, the way it is split
\* over the calls and the output space of each call; every pass of the loop
\* that does not return takes a byte or a bit of input, produces output or
\* changes the state of the decoder
C27_InflateReturns ==
    /\ InLoop ~> (strm.open /\ strm.pc = "idle")
    /\ [][InLoop /\ InLoop' =>
            \/ Len(strm'.in) < Len(strm.in)
            \/ strm'.bits_in_buffer < strm.bits_in_buffer
            \/ Len(strm'.out) > Len(strm.out)
            \/ strm'.state # strm.state]_vars

\* the second call starts on a block header whose first bit came with the
\* bytes of the first call
C27_SplitHeader ==
    /\ InLoop
    /\ calls = 2
    /\ strm.state = 0
    /\ strm.total_in = 7
    /\ strm.bits_in_buffer = 1
    /\ Len(strm.out) = 5
    /\ strm.in \o stream = SubSeq(TwoBlockStream, 8, 10)


(* ------------------------------------------------------------------ *)
(* The symbols that index the decoder's tables                          *)
(* ------------------------------------------------------------------ *)

\* the distance symbol that the next pass on d decodes behind a length symbol
\* and its extra bits; -1 when the pass does not get as far as that
NextDistanceSymbol(d) ==
    Bind(decode_symbol(d, d.literals, d.literals.count, 1, 0), LAMBDA s :
         IF s.v < 257 \/ s.v > 285 THEN -1
         ELSE Bind(IF length_extra[s.v - 257 + 1] > 0
                   THEN get_bits(s.d, length_extra[s.v - 257 + 1])
                   ELSE [d |-> s.d, v |-> 0], LAMBDA g :
              IF g.v < 0 THEN -1
              ELSE Bind(decode_symbol(g.d, g.d.distances, g.d.distances.count, 1, 0).v,
                        LAMBDA v : IF v < 0 THEN -1 ELSE v)))

\* C28: the distance symbol with which inflate indexes dist_base and
\* dist_extra is one of 0..29: symbols 30 and 31 of the fixed code do not get
\* to the tables
C28_TableBounds ==
    InLoop /\ strm.state = 2 /\ Len(strm.in) > 0 => NextDistanceSymbol(strm) <= 29

\* a fixed block that starts with the length symbol 259 and the distance
\* symbol 31: the pass goes on with what lies behind the tables, copies five
\* bytes out of a window that holds none, and reports no data error
C28_PastTheTables ==
    /\ kind = "raw"
    /\ InLoop /\ strm.state = 2 /\ strm.btype = BLOCK_FIXED
    /\ strm.total_in = 1 /\ strm.in = << 255 >> /\ strm.out = << >>
    /\ NextDistanceSymbol(strm) = 31
    /\ inflate_pass(strm, flush).d.ub
    /\ Len(inflate_pass(strm, flush).d.out) = 5
    /\ inflate_pass(strm, flush).ret # Z_DATA_ERROR


(* ------------------------------------------------------------------ *)
(* Archives with a damaged end record                                   *)
(* ------------------------------------------------------------------ *)

\* a one-entry archive whose end record declares total_entries entries and a
\* central directory that is cut bytes shorter than the one header in it
DamagedFile(name, payload, total_entries, cut) ==
    Bind([name |-> name, local_hdr_ofs |-> 0,
          comp_size |-> Len(payload), uncomp_size |-> Len(payload),
          method |-> OTEZIP_METHOD_STORE, crc32 |-> otezip_crc32(CrcZero, payload),
          file_time |-> 0, file_date |-> 33, external_attr |-> 0], LAMBDA e :
    Bind(otezip_write_local_header(e.name, e.method, e.comp_size, e.uncomp_size, e.crc32,
                                   << >>) \o payload, LAMBDA rec :
    Bind(otezip_write_central_header(e), LAMBDA cdh :
         << Seg(rec), Seg(cdh),
            Seg(otezip_write_end_of_central_directory(total_entries, Len(cdh) - cut,
                                                      Len(rec))) >>)))

\* most entries an end record declares
MaxDeclared == 3

\* a damaged archive appears at the path
DamagedArchive(name, payload, total_entries, cut) ==
    /\ ~disk.exists
    /\ hist.kind = "none"
    /\ disk' = [exists |-> TRUE, f |-> DamagedFile(name, payload, total_entries, cut)]
    /\ hist' = [hist EXCEPT !.kind = "damaged"]
    /\ UNCHANGED << za, errorp, zf, otezip_ignore_zipbomb, otezip_verify_crc, platform,
                    codec_vars >>

DamageNext ==
    \/ \E file \in Files, total_entries \in 1..MaxDeclared, cut \in {0, 1, 2} :
          DamagedArchive(file.name, file.src, total_entries, cut)
    \/ \E flags \in ModeFlags : ZipOpen(flags)
    \/ \E index \in 0..MaxEntries : ZipFopenIndex(index, 0, FALSE)
    \/ ZipClose

\* damaged archives opened under every combination of flags
DamageSpec == Init /\ [][DamageNext]_vars

\* C29: when the load of the central directory fails, the clean-up of zip_open
\* frees every name buffer allocated so far once, frees none twice, and hands
\* no name that was never filled in, or that was freed, to any code that reads it
C29_CleanUp ==
    ~za.open /\ disk.exists =>
        \A flags \in ModeFlags : ~zip_open(disk, flags, platform.malloc0_null).ub

\* the directory of the archive ends inside the name of its entry: the load
\* freed the name and failed, and the close of the refused read-only open
\* freed the name again
C29_FreedTwice ==
    /\ ~za.open /\ disk.exists
    /\ hist.kind = "damaged"
    /\ hist.last = ZIP_RDONLY /\ errorp = ZIP_ER_INCONS
    /\ hist.ub
    /\ otezip_load_central(disk.f, platform.malloc0_null).dangling
    /\ otezip_load_central(disk.f, platform.malloc0_null).n_entries = 1

(* ------------------------------------------------------------------ *)
(* The back-references of the encoder                                   *)
(* ------------------------------------------------------------------ *)

MaxMatchInput == 7

\* inputs with repeats of period 1, 2 and 3, of bytes fresh memory may hold
MatchInputs == SeqsUpTo({0, 98}, MaxMatchInput) \ {<< >>}

NoMatch == [len |-> 0, distance |-> 0, pos |-> 0]

\* deflate(strm, Z_FINISH) of a fresh raw session on X, up to the loop
\* "Process all input data": the block header is written
MatchStart(X, lv, garbage) ==
    /\ kind = "none"
    /\ \E i \in {deflateInit2(lv, -MAX_WBITS, garbage)} :
          /\ i.ret = Z_OK
          /\ \E h \in {write_bits(write_bits([i.e EXCEPT
                                                !.in = X,
                                                !.avail_out = compressBound(Len(X)),
                                                !.is_last_block = 1], 1, 1).e, 1, 2)} :
                /\ h.ret = Z_OK
                /\ enc' = [e |-> h.e, ret |-> Z_OK, ub |-> h.e.ub, pc |-> "loop",
                           match |-> NoMatch]
    /\ plain' = X
    /\ kind' = "passes"
    /\ level' = lv
    /\ stream' = << >>
    /\ UNCHANGED << strm, flush, inf_ret, calls, archive_vars >>

\* the match that the pass on e finds, as deflate goes on to encode it:
\* distance = state->window_pos - match_pos
pass_match(e) ==
    IF e.avail_out >= 4 /\ e.level >= 3 /\ Min(Len(e.in), MaxMatchLen) >= MinMatchLen
    THEN Bind(find_longest_match(e, e.in, e.window_pos, Min(Len(e.in), MaxMatchLen)),
              LAMBDA m : IF m.len >= MinMatchLen
                         THEN [len |-> m.len, distance |-> e.window_pos - m.match_pos,
                               pos |-> e.total_in]
                         ELSE NoMatch)
    ELSE NoMatch

\* one pass of the loop: a match or a literal
MatchPass ==
    /\ kind = "passes"
    /\ enc.pc = "loop"
    /\ Len(enc.e.in) > 0
    /\ \E r \in {deflate_pass(enc.e)} :
          enc' = [e |-> r.e, ret |-> r.ret, ub |-> r.e.ub,
                  pc |-> IF r.ret = Z_OK THEN "loop" ELSE "done",
                  match |-> pass_match(enc.e)]
    /\ UNCHANGED << plain, kind, level, stream, strm, flush, inf_ret, calls, archive_vars >>

\* the input is used up: end-of-block, flush, Z_STREAM_END
MatchEnd ==
    /\ kind = "passes"
    /\ enc.pc = "loop"
    /\ Len(enc.e.in) = 0
    /\ \E e1 \in {flush_bits(write_huffman_code(enc.e, enc.e.literals.codes[257],
                                                enc.e.literals.lengths[257]).e).e} :
          /\ enc' = [enc EXCEPT !.e = e1, !.ret = Z_STREAM_END, !.ub = e1.ub,
                                !.pc = "done"]
          /\ stream' = e1.out
    /\ UNCHANGED << plain, kind, level, strm, flush, inf_ret, calls, archive_vars >>

MatchNext ==
    \/ \E X \in MatchInputs, lv \in {1, 6}, g \in GarbageBytes : MatchStart(X, lv, g)
    \/ MatchPass
    \/ MatchEnd

\* raw deflate sessions, pass by pass
MatchSpec == CodecInit /\ [][MatchNext]_vars

\* the byte that a decoder puts at place k of a copy of the given distance to
\* position pos of the text: a copy that overlaps itself repeats
Referenced(text, pos, distance, k) == text[pos - distance + (k % distance) + 1]

\* C30: a match that the encoder has found is a valid back-reference: its
\* distance is between 1 and min(window size, bytes encoded before it), its
\* length between 3 and min(258, input left), and the bytes it refers to are
\* the next bytes of the input
C30_ValidMatches ==
    kind = "passes" /\ enc.match.len # 0 =>
        /\ 1 <= enc.match.distance
        /\ enc.match.distance <= Min(enc.e.window_size, enc.match.pos)
        /\ MinMatchLen <= enc.match.len
        /\ enc.match.len <= Min(MaxMatchLen, Len(plain) - enc.match.pos)
        /\ \A k \in 0..(enc.match.len - 1) :
              Referenced(plain, enc.match.pos, enc.match.distance, k)
                  = plain[enc.match.pos + k + 1]

\* 98 0 98 0 98 0 0 in a window of zeroes: at position 3 the candidate at
\* position 1 is compared up to window cells that were not yet written, and
\* the match of length 4 and distance 2 stands for 0 98 0 98, not 0 98 0 0
C30_BeyondTheWritten ==
    /\ kind = "passes"
    /\ plain = << 98, 0, 98, 0, 98, 0, 0 >>
    /\ level = 6
    /\ enc.e.garbage = 0
    /\ enc.match = [len |-> 4, distance |-> 2, pos |-> 3]
    /\ Referenced(plain, 3, 2, 3) = 98
    /\ plain[7] = 0
    /\ enc.ub
    /\ enc.pc = "done" /\ enc.ret = Z_STREAM_END

====
